---- MODULE Spec2Model ----
(***************************************************************************)
(* Model of the soil telemetry endpoints (soil-moisture.js, soil-temp.js): *)
(* the CSV scanner, the wall-clock timestamp resolver and the request      *)
(* handlers.  Times are in seconds (the source's milliseconds / 1000).     *)
(* Characters are one-character strings; the double quote, line feed and   *)
(* carriage return are written DQ, LF and CR.                              *)
(***************************************************************************)
EXTENDS Integers, Sequences, FiniteSets, TLC

VARIABLES
    \* ---- parseCSV: the scanner's locals
    text,       \* the input text, a sequence of characters
    origin,     \* where text came from: [kind |-> "raw"] or a serialized table
    pos,        \* i + 1 (TLA+ sequences start at 1)
    row,        \* the cells of the row being built
    cur,        \* the cell being built
    inQ,        \* inside a double-quoted field
    out,        \* the rows emitted so far
    cpc,        \* "scan" | "done" | "idle"
    \* ---- parseLocalWallTime: its arguments, the runtime it runs on, its result
    tsRaw,      \* the raw timestamp, a sequence of characters
    shape,      \* how tsRaw was written (the grammar parts it was built from)
    timeZone,   \* the zone name passed in
    hour24,     \* the runtime renders midnight as hour "24" under hour12:false
    legacyOk,   \* the runtime's Date parser accepts non-ISO strings
    parsed,     \* the returned Date, or "pending"
    wpc,        \* "call" | "done" | "idle"
    \* ---- depth selection: the nearest-column loop on its own
    selVariant, \* which handler's header patterns are used
    selHeader,  \* the header row
    selWant,    \* the requested depth (hundredths of an inch, or NaN)
    selCols,    \* the descriptors identified in the header
    selBest,    \* the selected descriptor, or "pending"
    spc,        \* "identify" | "select" | "done" | "idle"
    \* ---- one invocation of exports.handler
    fn,         \* the deployed function: "moisture" or "temp"
    event,      \* httpMethod and the query string parameters (<<>> when absent)
    env,        \* IRRIMAX_API_KEY and the runtime's behaviours
    upstream,   \* what the IrriMAX request will produce, and how long it takes
    clock,      \* the wall clock, seconds since the epoch
    fetches,    \* the number of upstream requests issued
    locals,     \* the handler's local variables
    hpc,        \* "invoked" | "fetching" | "columns" | "readings" | "done" | "idle"
    response,   \* the returned {statusCode, body}
    earlier     \* the answers of the earlier invocations of this instance

csvVars == <<text, origin, pos, row, cur, inQ, out, cpc>>
wallVars == <<tsRaw, shape, timeZone, hour24, legacyOk, parsed, wpc>>

selVars == <<selVariant, selHeader, selWant, selCols, selBest, spc>>

handlerVars == <<fn, event, env, upstream, clock, fetches, locals, hpc, response, earlier>>

vars == <<csvVars, wallVars, selVars, handlerVars>>

\* ------------------------------------------------------------------ bounds
MaxTextLen == 4      \* raw CSV texts have at most this many characters
MaxTableRows == 2    \* serialized tables have at most this many rows
DaySpread == 1       \* stamps cover this many days before and after each anchor date
MaxCols == 3         \* headers tried by depth selection have at most this many depth columns
MaxRows == 2         \* upstream bodies have at most this many data rows
MaxRuns == 2         \* an instance of the function is invoked at most this many times

\* --------------------------------------------------------------- characters
DQ == "DQ"
LF == "LF"
CR == "CR"
COMMA == ","

CsvAlphabet == {"a", COMMA, DQ, LF, CR}

SeqsUpTo(S, n) == UNION {[1..k -> S] : k \in 0..n}

\* ------------------------------------------------------------------ parseCSV

\* One iteration of the for loop: st is [row, cur, inQ, out], ch = text[i],
\* nx = text[i+1] ("" when i+1 is past the end); the result adds skip, the
\* number of characters consumed.
ScanCharNoEscape(st, ch, nx) ==
    IF st.inQ
    THEN IF ch = DQ
         THEN [st EXCEPT !.inQ = FALSE] @@ [skip |-> 1]
         ELSE [st EXCEPT !.cur = Append(@, ch)] @@ [skip |-> 1]
    ELSE IF ch = DQ THEN [st EXCEPT !.inQ = TRUE] @@ [skip |-> 1]
         ELSE IF ch = COMMA
              THEN [st EXCEPT !.row = Append(@, st.cur), !.cur = <<>>] @@ [skip |-> 1]
         ELSE IF ch = LF
              THEN [st EXCEPT !.out = Append(@, Append(st.row, st.cur)),
                              !.row = <<>>, !.cur = <<>>] @@ [skip |-> 1]
         ELSE IF ch # CR THEN [st EXCEPT !.cur = Append(@, ch)] @@ [skip |-> 1]
         ELSE st @@ [skip |-> 1]

ScanChar(st, ch, nx) ==
    IF st.inQ
    THEN IF ch = DQ /\ nx = DQ
         THEN [st EXCEPT !.cur = Append(@, DQ)] @@ [skip |-> 2]
         ELSE IF ch = DQ
              THEN [st EXCEPT !.inQ = FALSE] @@ [skip |-> 1]
              ELSE [st EXCEPT !.cur = Append(@, ch)] @@ [skip |-> 1]
    ELSE IF ch = DQ THEN [st EXCEPT !.inQ = TRUE] @@ [skip |-> 1]
         ELSE IF ch = COMMA
              THEN [st EXCEPT !.row = Append(@, st.cur), !.cur = <<>>] @@ [skip |-> 1]
         ELSE IF ch = LF
              THEN [st EXCEPT !.out = Append(@, Append(st.row, st.cur)),
                              !.row = <<>>, !.cur = <<>>] @@ [skip |-> 1]
         ELSE IF ch # CR THEN [st EXCEPT !.cur = Append(@, ch)] @@ [skip |-> 1]
         ELSE st @@ [skip |-> 1]

\* The statement after the loop: the trailing row is pushed when the current
\* cell or the current row is non-empty.
FlushTail(st) ==
    IF Len(st.cur) > 0 \/ Len(st.row) > 0
    THEN Append(st.out, Append(st.row, st.cur))
    ELSE st.out

\* parseCSV as a function of the text (the loop run to its end).
RECURSIVE ScanFrom(_, _, _)
ScanFrom(t, i, st) ==
    IF i > Len(t) THEN FlushTail(st)
    ELSE LET nx == IF i + 1 <= Len(t) THEN t[i + 1] ELSE ""
             r == ScanChar(st, t[i], nx)
         IN ScanFrom(t, i + r.skip, [row |-> r.row, cur |-> r.cur, inQ |-> r.inQ, out |-> r.out])

parseCSV(t) == ScanFrom(t, 1, [row |-> <<>>, cur |-> <<>>, inQ |-> FALSE, out |-> <<>>])

\* ---- serialization of a table (the writer the round trip is taken against)
RECURSIVE DoubleQuotes(_)
DoubleQuotes(c) ==
    IF c = <<>> THEN <<>>
    ELSE (IF Head(c) = DQ THEN <<DQ, DQ>> ELSE <<Head(c)>>) \o DoubleQuotes(Tail(c))

QuoteCell(c) == <<DQ>> \o DoubleQuotes(c) \o <<DQ>>

RECURSIVE SerializeRow(_)
SerializeRow(r) ==
    IF Len(r) = 1 THEN QuoteCell(r[1])
    ELSE QuoteCell(Head(r)) \o <<COMMA>> \o SerializeRow(Tail(r))

\* rows separated by LF; finalNewline says whether the last row is terminated too
RECURSIVE SerializeTable(_, _)
SerializeTable(rows, finalNewline) ==
    IF rows = <<>> THEN <<>>
    ELSE IF Len(rows) = 1
         THEN SerializeRow(rows[1]) \o (IF finalNewline THEN <<LF>> ELSE <<>>)
         ELSE SerializeRow(Head(rows)) \o <<LF>> \o SerializeTable(Tail(rows), finalNewline)

TableCells == {<<>>, <<"a">>, <<COMMA>>, <<DQ>>, <<LF, CR>>}
TableRowsSet == UNION {[1..k -> TableCells] : k \in 1..2}
Tables == UNION {[1..k -> TableRowsSet] : k \in 1..MaxTableRows}

CsvOrigins ==
    {[kind |-> "raw", rows |-> <<>>, finalNewline |-> FALSE]}
    \cup {[kind |-> "table", rows |-> t, finalNewline |-> nl] : t \in Tables, nl \in BOOLEAN}

\* ------------------------------------------------------ calendar arithmetic

\* days since 1970-01-01 of a proleptic Gregorian date (month 1..12)
DaysFromCivil(y, m, d) ==
    LET yy == IF m <= 2 THEN y - 1 ELSE y
        era == yy \div 400
        yoe == yy - era * 400
        mp == (m + 9) % 12
        doy == (153 * mp + 2) \div 5 + d - 1
        doe == yoe * 365 + yoe \div 4 - yoe \div 100 + doy
    IN era * 146097 + doe - 719468

\* the date [year, month, day] of a day number
CivilFromDays(z) ==
    LET zz == z + 719468
        era == zz \div 146097
        doe == zz - era * 146097
        yoe == (doe - doe \div 1460 + doe \div 36524 - doe \div 146096) \div 365
        doy == doe - (365 * yoe + yoe \div 4 - yoe \div 100)
        mp == (5 * doy + 2) \div 153
        d == doy - (153 * mp + 2) \div 5 + 1
        m == IF mp < 10 THEN mp + 3 ELSE mp - 9
    IN [year |-> yoe + era * 400 + (IF m <= 2 THEN 1 ELSE 0), month |-> m, day |-> d]

\* Date.UTC(year, monthIndex, day, h, mi, s) in seconds: fields out of range
\* carry over (month index -1 is December of the year before, day 32 runs on
\* into the next month, hour 24 is the next day)
DateUTC(y, mIdx, d, h, mi, sec) ==
    (DaysFromCivil(y + mIdx \div 12, (mIdx % 12) + 1, 1) + d - 1) * 86400
        + h * 3600 + mi * 60 + sec

\* ------------------------------------------------------------ digit strings
DigitsSeq == <<"0", "1", "2", "3", "4", "5", "6", "7", "8", "9">>
DigitChars == {DigitsSeq[i] : i \in 1..10}
DigitVal(c) == (CHOOSE i \in 1..10 : DigitsSeq[i] = c) - 1

\* unary plus on a string of digits
RECURSIVE ToNumber(_)
ToNumber(ds) ==
    IF ds = <<>> THEN 0
    ELSE ToNumber(SubSeq(ds, 1, Len(ds) - 1)) * 10 + DigitVal(ds[Len(ds)])

\* n written with at least w digits (padStart(w, "0"); "2-digit" and "numeric" parts)
RECURSIVE Digits(_, _)
Digits(n, w) ==
    IF n < 10 /\ w <= 1 THEN <<DigitsSeq[n + 1]>>
    ELSE Digits(n \div 10, w - 1) \o <<DigitsSeq[(n % 10) + 1]>>

AllDigits(ds) == \A i \in 1..Len(ds) : ds[i] \in DigitChars

\* ------------------------------------------------------------ the time zones
\* The zone database as the runtime's Intl sees it for 2024: the offset from
\* UTC in seconds, standard and daylight, and the instants between which
\* daylight time is in force.  A name it does not know is absent.
ZoneTable ==
    { [name |-> "America/Chicago", std |-> -21600, dst |-> -18000,
       dstStart |-> DateUTC(2024, 2, 10, 8, 0, 0), dstEnd |-> DateUTC(2024, 10, 3, 7, 0, 0)],
      [name |-> "Europe/Berlin", std |-> 3600, dst |-> 7200,
       dstStart |-> DateUTC(2024, 2, 31, 1, 0, 0), dstEnd |-> DateUTC(2024, 9, 27, 1, 0, 0)],
      [name |-> "America/Phoenix", std |-> -25200, dst |-> -25200, dstStart |-> 0, dstEnd |-> 0],
      [name |-> "Asia/Kolkata", std |-> 19800, dst |-> 19800, dstStart |-> 0, dstEnd |-> 0],
      [name |-> "UTC", std |-> 0, dst |-> 0, dstStart |-> 0, dstEnd |-> 0] }

ZoneNames == {z.name : z \in ZoneTable}
ZoneOf(name) == CHOOSE z \in ZoneTable : z.name = name

\* the zone's offset from UTC at instant t
OffsetAt(name, t) ==
    LET z == ZoneOf(name)
    IN IF z.dstStart <= t /\ t < z.dstEnd THEN z.dst ELSE z.std

\* Intl.DateTimeFormat("en-US", {timeZone, year: "numeric", month..second:
\* "2-digit", hour12: false}).formatToParts(new Date(t)), as the object of
\* its parts.  With hour12: false the en-US hour cycle is h23 or h24
\* depending on the runtime: under h24 the hour after midnight reads "24".
FormatToParts(name, t, h24) ==
    LET loc == t + OffsetAt(name, t)
        date == CivilFromDays(loc \div 86400)
        sod == loc % 86400
        hr == sod \div 3600
    IN [year |-> Digits(date.year, 1), month |-> Digits(date.month, 2),
        day |-> Digits(date.day, 2),
        hour |-> Digits(IF hr = 0 /\ h24 THEN 24 ELSE hr, 2),
        minute |-> Digits((sod % 3600) \div 60, 2), second |-> Digits(sod % 60, 2)]

\* ------------------------------------------------------- parseLocalWallTime
NaNDate == [k |-> "NaN", t |-> 0]
Instant(t) == [k |-> "instant", t |-> t]
\* a valid Date whose value the ECMAScript specification leaves to the runtime
RuntimeDate == [k |-> "runtime", t |-> 0]
\* the RangeError of Intl.DateTimeFormat for an unknown time zone
RangeError == [k |-> "throw", t |-> 0]

\* String.prototype.trim
RECURSIVE TrimLeft(_)
TrimLeft(s) == IF s # <<>> /\ Head(s) = " " THEN TrimLeft(Tail(s)) ELSE s
RECURSIVE TrimRight(_)
TrimRight(s) ==
    IF s # <<>> /\ s[Len(s)] = " " THEN TrimRight(SubSeq(s, 1, Len(s) - 1)) ELSE s
Trim(s) == TrimRight(TrimLeft(s))

LastN(s, n) == SubSeq(s, Len(s) - n + 1, Len(s))

\* /[zZ]$/.test(s) || /[+\-]\d{2}:?\d{2}$/.test(s)
LooksZoned(s) ==
    \/ Len(s) >= 1 /\ s[Len(s)] \in {"Z", "z"}
    \/ Len(s) >= 5 /\ LET e == LastN(s, 5)
                      IN e[1] \in {"+", "-"} /\ AllDigits(SubSeq(e, 2, 5))
    \/ Len(s) >= 6 /\ LET e == LastN(s, 6)
                      IN /\ e[1] \in {"+", "-"} /\ AllDigits(SubSeq(e, 2, 3))
                         /\ e[4] = ":" /\ AllDigits(SubSeq(e, 5, 6))

\* s.replace(/\//g, "-")
ReplaceSlashes(s) == [i \in 1..Len(s) |-> IF s[i] = "/" THEN "-" ELSE s[i]]

\* s.replace(" ", "T"): the first space only
ReplaceFirstSpace(s) ==
    IF \E i \in 1..Len(s) : s[i] = " "
    THEN LET f == CHOOSE i \in 1..Len(s) : s[i] = " " /\ \A j \in 1..(i - 1) : s[j] # " "
         IN [i \in 1..Len(s) |-> IF i = f THEN "T" ELSE s[i]]
    ELSE s

\* /^(\d{4})-(\d{2})-(\d{2})[T ](\d{2}):(\d{2})(?::(\d{2}))?$/
MatchesStamp(n) ==
    /\ Len(n) \in {16, 19}
    /\ AllDigits(SubSeq(n, 1, 4)) /\ n[5] = "-"
    /\ AllDigits(SubSeq(n, 6, 7)) /\ n[8] = "-"
    /\ AllDigits(SubSeq(n, 9, 10)) /\ n[11] \in {"T", " "}
    /\ AllDigits(SubSeq(n, 12, 13)) /\ n[14] = ":"
    /\ AllDigits(SubSeq(n, 15, 16))
    /\ Len(n) = 19 => (n[17] = ":" /\ AllDigits(SubSeq(n, 18, 19)))

\* the want object of a matched stamp
WantOf(n) ==
    [Y |-> ToNumber(SubSeq(n, 1, 4)), M |-> ToNumber(SubSeq(n, 6, 7)),
     D |-> ToNumber(SubSeq(n, 9, 10)), h |-> ToNumber(SubSeq(n, 12, 13)),
     i |-> ToNumber(SubSeq(n, 15, 16)),
     s |-> IF Len(n) = 19 THEN ToNumber(SubSeq(n, 18, 19)) ELSE 0]

\* new Date(s) for a string that LooksZoned.  The ECMAScript date-time format
\* YYYY-MM-DDTHH:mm[:ss] followed by Z or +HH:mm / -HH:mm is parsed as written;
\* what any other string gives is left to the runtime (a Date or NaN).
IsoZoned(s) ==
    LET zlen == IF s[Len(s)] = "Z" THEN 1 ELSE 6
        body == SubSeq(s, 1, Len(s) - zlen)
        z == LastN(s, zlen)
    IN /\ Len(s) >= 1 /\ (s[Len(s)] = "Z" \/ Len(s) >= 6)
       /\ Len(body) \in {16, 19} /\ MatchesStamp(body) /\ body[11] = "T"
       /\ zlen = 6 => (z[1] \in {"+", "-"} /\ AllDigits(SubSeq(z, 2, 3)) /\ z[4] = ":"
                        /\ AllDigits(SubSeq(z, 5, 6)))
       /\ LET w == WantOf(body)
          IN w.M \in 1..12 /\ w.D \in 1..31 /\ w.h <= 23 /\ w.i <= 59 /\ w.s <= 59

NativeDate(s, legacy) ==
    IF IsoZoned(s)
    THEN LET zlen == IF s[Len(s)] = "Z" THEN 1 ELSE 6
             w == WantOf(SubSeq(s, 1, Len(s) - zlen))
             z == LastN(s, zlen)
             off == IF zlen = 1 THEN 0
                    ELSE (IF z[1] = "-" THEN -1 ELSE 1)
                         * (ToNumber(SubSeq(z, 2, 3)) * 3600 + ToNumber(SubSeq(z, 5, 6)) * 60)
         IN Instant(DateUTC(w.Y, w.M - 1, w.D, w.h, w.i, w.s) - off)
    ELSE IF legacy THEN RuntimeDate ELSE NaNDate

\* (a resolver that renders its corrected guess again and corrects a second
\* time)
parseLocalWallTimeTwoPass(raw, zone, h24, legacy) ==
    LET s == Trim(raw)
    IN IF LooksZoned(s) THEN NativeDate(s, legacy)
       ELSE LET n == ReplaceFirstSpace(ReplaceSlashes(s))
            IN IF ~MatchesStamp(n) THEN NaNDate
               ELSE IF zone \notin ZoneNames THEN RangeError
               ELSE LET want == WantOf(n)
                        wantMs == DateUTC(want.Y, want.M - 1, want.D, want.h, want.i, want.s)
                        GotMs(t) ==
                            LET parts == FormatToParts(zone, t, h24)
                            IN DateUTC(ToNumber(parts.year), ToNumber(parts.month) - 1,
                                       ToNumber(parts.day), ToNumber(parts.hour),
                                       ToNumber(parts.minute), ToNumber(parts.second))
                        first == wantMs + (wantMs - GotMs(wantMs))
                    IN Instant(first + (wantMs - GotMs(first)))

parseLocalWallTime(raw, zone, h24, legacy) ==
    LET s == Trim(raw)
    IN IF LooksZoned(s) THEN NativeDate(s, legacy)
       ELSE LET n == ReplaceFirstSpace(ReplaceSlashes(s))
            IN IF ~MatchesStamp(n) THEN NaNDate
               ELSE IF zone \notin ZoneNames THEN RangeError
               ELSE LET want == WantOf(n)
                        guessMs == DateUTC(want.Y, want.M - 1, want.D, want.h, want.i, want.s)
                        parts == FormatToParts(zone, guessMs, h24)
                        gotMs == DateUTC(ToNumber(parts.year), ToNumber(parts.month) - 1,
                                         ToNumber(parts.day), ToNumber(parts.hour),
                                         ToNumber(parts.minute), ToNumber(parts.second))
                        wantMs == DateUTC(want.Y, want.M - 1, want.D, want.h, want.i, want.s)
                    IN Instant(guessMs + (wantMs - gotMs))

\* --------------------------------------------------------- numbers in cells
\* Readings and requested depths are kept in hundredths (0.31 is 31), NaN as
\* [nan |-> TRUE].
NaN == [nan |-> TRUE, v |-> 0]
Num(v) == [nan |-> FALSE, v |-> v]

\* the length of the longest prefix of s made of digits
RECURSIVE DigitRun(_)
DigitRun(s) == IF s # <<>> /\ Head(s) \in DigitChars THEN 1 + DigitRun(Tail(s)) ELSE 0

Drop(s, n) == SubSeq(s, n + 1, Len(s))

\* parseFloat: leading blanks skipped, an optional sign, digits with an
\* optional fraction; whatever follows is ignored; a missing cell (undefined),
\* an empty one or one that starts otherwise is NaN.
parseFloat(cell) ==
    IF cell = "undefined" THEN NaN
    ELSE LET s == TrimLeft(cell)
             neg == s # <<>> /\ Head(s) = "-"
             u == IF s # <<>> /\ Head(s) \in {"-", "+"} THEN Tail(s) ELSE s
             ni == DigitRun(u)
             afterInt == Drop(u, ni)
             nf == IF afterInt # <<>> /\ Head(afterInt) = "." THEN DigitRun(Tail(afterInt)) ELSE 0
             frac == IF nf = 0 THEN <<"0", "0">>
                     ELSE SubSeq(SubSeq(afterInt, 2, nf + 1) \o <<"0">>, 1, 2)
             mag == ToNumber(SubSeq(u, 1, ni)) * 100 + ToNumber(frac)
         IN IF ni = 0 /\ nf = 0 THEN NaN ELSE Num(IF neg THEN 0 - mag ELSE mag)

\* parseInt(s, 10), in whole units
parseInt(str) ==
    LET s == TrimLeft(str)
        neg == s # <<>> /\ Head(s) = "-"
        u == IF s # <<>> /\ Head(s) \in {"-", "+"} THEN Tail(s) ELSE s
        ni == DigitRun(u)
    IN IF ni = 0 THEN NaN
       ELSE Num(IF neg THEN 0 - ToNumber(SubSeq(u, 1, ni)) ELSE ToNumber(SubSeq(u, 1, ni)))

\* Math.max(1, x)
MaxWithOne(x) == IF x.nan THEN NaN ELSE IF x.v > 1 THEN x ELSE Num(1)

\* Math.round(x * 10) / 10 of the fraction num/den (den > 0), in tenths:
\* halves round up
round1(num, den) == (20 * num + den) \div (2 * den)

Abs(x) == IF x < 0 THEN 0 - x ELSE x

\* ------------------------------------------------------ column identification
\* A depth is kept in units of 1/25400 inch, so that cm / 2.54 is exact:
\* cm hundredths * 100, inch hundredths * 254.
\* (the centimetres taken for inches)
FromCmAsInches(cmHundredths) == cmHundredths * 254
FromCm(cmHundredths) == cmHundredths * 100
FromInches(inHundredths) == inHundredths * 254

\* h.match(/^<letter>\d+\((\d+(?:\.\d+)?)\)\s*$/i): the capture, or <<>>
ChannelCmMatch(h, letters) ==
    LET t == TrimRight(h)
        nch == IF Len(t) >= 1 THEN DigitRun(Tail(t)) ELSE 0
        rest == Drop(t, 1 + nch)
        inner == IF Len(rest) >= 2 THEN SubSeq(rest, 2, Len(rest) - 1) ELSE <<>>
        ni == DigitRun(inner)
        afterInt == Drop(inner, ni)
        fracOk == \/ afterInt = <<>>
                  \/ /\ Head(afterInt) = "." /\ Len(afterInt) >= 2
                     /\ DigitRun(Tail(afterInt)) = Len(afterInt) - 1
    IN IF /\ Len(t) >= 1 /\ Head(t) \in letters /\ nch >= 1
          /\ Len(rest) >= 3 /\ Head(rest) = "(" /\ rest[Len(rest)] = ")"
          /\ ni >= 1 /\ fracOk
       THEN inner ELSE <<>>

\* h.match(/(?:<keywords>)[^0-9]*([0-9]+(?:\.\d+)?)\s*cm/i): the capture, or
\* <<>>.  A keyword is one element of the cell, as is the unit "cm".
KeywordCmMatch(h, keywords) ==
    LET starts == {k \in 1..Len(h) : h[k] \in keywords}
        numAt(k) == LET after == Drop(h, k)
                        gap == CHOOSE g \in 0..Len(after) :
                                   /\ \A j \in 1..g : after[j] \notin DigitChars
                                   /\ (g = Len(after) \/ after[g + 1] \in DigitChars)
                        digs == Drop(after, gap)
                        ni == DigitRun(digs)
                        afterInt == Drop(digs, ni)
                        nf == IF Len(afterInt) >= 2 /\ Head(afterInt) = "."
                              THEN DigitRun(Tail(afterInt)) ELSE 0
                        numLen == IF nf > 0 THEN ni + 1 + nf ELSE ni
                        tail == TrimLeft(Drop(digs, numLen))
                    IN IF ni >= 1 /\ tail # <<>> /\ Head(tail) = "cm"
                       THEN SubSeq(digs, 1, numLen) ELSE <<>>
        hits == {k \in starts : numAt(k) # <<>>}
    IN IF hits = {} THEN <<>>
       ELSE numAt(CHOOSE k \in hits : \A j \in hits : k <= j)

\* the letters and keywords of each handler's patterns (case-insensitive)
TypeLetters(variant) == IF variant = "temp" THEN {"T", "t"} ELSE {"A", "a"}
TypeKeywords(variant) ==
    IF variant = "temp" THEN {"temp", "temperature", "Temp", "Temperature"}
    ELSE {"apparent", "water content", "moisture", "Moisture", "Water Content"}

\* header.forEach(...): the descriptors {colIdx, depthInches}, in header order;
\* colIdx counts from 0 as in the source
RECURSIVE IdentifyFrom(_, _, _)
IdentifyFrom(header, i, variant) ==
    IF i > Len(header) THEN <<>>
    ELSE LET h == header[i]
             m1 == ChannelCmMatch(h, TypeLetters(variant))
             m2 == KeywordCmMatch(h, TypeKeywords(variant))
             found == IF m1 # <<>>
                      THEN <<[colIdx |-> i - 1, depthInches |-> FromCm(parseFloat(m1).v)]>>
                      ELSE IF m2 # <<>>
                           THEN <<[colIdx |-> i - 1, depthInches |-> FromCm(parseFloat(m2).v)]>>
                           ELSE <<>>
         IN found \o IdentifyFrom(header, i + 1, variant)

IdentifyColumns(header, variant) == IdentifyFrom(header, 1, variant)

\* ---- netlify/functions/soil-moisture (1).js: the V# handler's columns
\* h.match(/^V(\d+)\s*$/i): the capture, or <<>>
PlainChannelMatch(h, letters) ==
    LET t == TrimRight(h)
    IN IF Len(t) >= 2 /\ Head(t) \in letters /\ DigitRun(Tail(t)) = Len(t) - 1
       THEN Tail(t) ELSE <<>>

\* (a wiring table that knows every channel)
channelDepthInchesAnyChannel(chan) == Num(600)

\* channelDepthInches[chan], in hundredths of an inch; undefined is NaN to
\* Number.isFinite
channelDepthInches(chan) ==
    IF chan = 1 THEN Num(600) ELSE IF chan = 2 THEN Num(2200) ELSE NaN

VwcKeywords == {"vwc", "VWC", "theta", "Theta", "water content", "Water Content"}

\* header.forEach(...) of the V# handler: V#(cm), then plain V# through the
\* wiring table, then the free-text labels; each branch returns
RECURSIVE IdentifyVwcFrom(_, _)
IdentifyVwcFrom(header, i) ==
    IF i > Len(header) THEN <<>>
    ELSE LET h == header[i]
             m1 == ChannelCmMatch(h, {"V", "v"})
             m2 == PlainChannelMatch(h, {"V", "v"})
             m3 == KeywordCmMatch(h, VwcKeywords)
             inches == channelDepthInches(parseInt(m2).v)
             found == IF m1 # <<>>
                      THEN <<[colIdx |-> i - 1, depthInches |-> FromCm(parseFloat(m1).v)]>>
                      ELSE IF m2 # <<>>
                           THEN IF ~inches.nan
                                THEN <<[colIdx |-> i - 1, depthInches |-> FromInches(inches.v)]>>
                                ELSE <<>>
                           ELSE IF m3 # <<>>
                                THEN <<[colIdx |-> i - 1,
                                        depthInches |-> FromCm(parseFloat(m3).v)]>>
                                ELSE <<>>
         IN found \o IdentifyVwcFrom(header, i + 1)

\* the columns each of the three handlers identifies
ColumnsOf(header, variant) ==
    IF variant = "vwc" THEN IdentifyVwcFrom(header, 1) ELSE IdentifyColumns(header, variant)

\* ------------------------------------------------------------ depth selection
\* |c.depthInches - want| < |best.depthInches - want|; false when want is NaN
Closer(c, best, want) ==
    ~want.nan /\ Abs(c.depthInches - FromInches(want.v)) < Abs(best.depthInches - FromInches(want.v))

CloserOrEqual(c, best, want) ==
    ~want.nan /\ Abs(c.depthInches - FromInches(want.v)) <= Abs(best.depthInches - FromInches(want.v))

\* let best = cols[0]; for (const c of cols) if (closer) best = c;
RECURSIVE NearestFrom(_, _, _, _)
NearestFrom(cols, i, best, want) ==
    IF i > Len(cols) THEN best
    ELSE NearestFrom(cols, i + 1, IF Closer(cols[i], best, want) THEN cols[i] ELSE best, want)

\* the loop with <= for <: the last of several nearest columns wins
RECURSIVE NearestFromLast(_, _, _, _)
NearestFromLast(cols, i, best, want) ==
    IF i > Len(cols) THEN best
    ELSE NearestFromLast(cols, i + 1,
                         IF CloserOrEqual(cols[i], best, want) THEN cols[i] ELSE best, want)

NearestColumnLastWins(cols, want) == NearestFromLast(cols, 1, cols[1], want)

NearestColumn(cols, want) == NearestFrom(cols, 1, cols[1], want)

\* ---- headers and requests tried by depth selection
DateTimeCell == <<"D", "a", "t", "e", " ", "T", "i", "m", "e">>

\* the header cell <letter><channel>(<cm>), cm in whole centimetres
ChannelCell(letter, chan, cm) == <<letter>> \o Digits(chan, 1) \o <<"(">> \o Digits(cm, 1) \o <<")">>

SelLetter(variant) == IF variant = "temp" THEN "T" ELSE "A"

SelHeaders(variant) ==
    { <<DateTimeCell>> \o [i \in 1..Len(cms) |-> ChannelCell(SelLetter(variant), i, cms[i])] :
        cms \in UNION {[1..n -> {0, 5, 15, 25, 57}] : n \in 1..MaxCols} }

SelWants == {Num(600), Num(2200), Num(2000), Num(394), Num(1417), NaN}

\* ------------------------------------------------------- the request handlers
\* variant "moisture" is soil-moisture.js (the A#(cm) handler), variant "temp"
\* is netlify/functions/soil-temp.js (the handler with today stats and trends).

DefaultTz == "America/Chicago"

\* x || dflt for strings: the default replaces an absent or empty parameter
OrDefault(x, dflt) == IF x = <<>> THEN dflt ELSE x

\* s.split(",")
RECURSIVE SplitCommas(_)
SplitCommas(s) ==
    IF \E i \in 1..Len(s) : s[i] = COMMA
    THEN LET f == CHOOSE i \in 1..Len(s) : s[i] = COMMA /\ \A j \in 1..(i - 1) : s[j] # COMMA
         IN <<SubSeq(s, 1, f - 1)>> \o SplitCommas(Drop(s, f))
    ELSE <<s>>

\* (p.depths || "6,22").split(",").map(s => parseFloat(s.trim()))
\*     .filter(n => Number.isFinite(n) && n > 0)
DepthsRequested(raw) ==
    LET parts == SplitCommas(OrDefault(raw, <<"6", COMMA, "2", "2">>))
        nums == [i \in 1..Len(parts) |-> parseFloat(Trim(parts[i]))]
        Positive(n) == ~n.nan /\ n.v > 0
    IN SelectSeq(nums, Positive)

\* parseFloat(p.depth || "6")
DepthRequested(raw) == parseFloat(OrDefault(raw, <<"6">>))

\* Math.max(1, parseInt(p.days || "30", 10))
DaysRequested(raw) == MaxWithOne(parseInt(OrDefault(raw, <<"3", "0">>)))

\* Date.now() - days * 24 * 3600 * 1000, NaN when days is
SinceOf(now, days) == IF days.nan THEN NaN ELSE Num(now - days.v * 86400)

\* ymdHMS_utc(d): the UTC fields of the instant, padded and concatenated
ymdHMS_utc(d) ==
    IF d.nan THEN <<"NaN", "NaN", "NaN", "NaN", "NaN", "NaN">>
    ELSE LET date == CivilFromDays(d.v \div 86400)
             sod == d.v % 86400
         IN Digits(date.year, 1) \o Digits(date.month, 2) \o Digits(date.day, 2)
                \o Digits(sod \div 3600, 2) \o Digits((sod % 3600) \div 60, 2)
                \o Digits(sod % 60, 2)

\* dateOnly_tz(d, tz): the en-CA calendar date YYYY-MM-DD of the instant in tz
dateOnly_tz(t, tz) ==
    LET date == CivilFromDays((t + OffsetAt(tz, t)) \div 86400)
    IN Digits(date.year, 4) \o <<"-">> \o Digits(date.month, 2) \o <<"-">> \o Digits(date.day, 2)

\* (a helper that answers 200 whatever status it is given)
jsonAlwaysOk(status, body) == [statusCode |-> 200, body |-> body]

\* json(status, body): the body's keys are the keys of the JSON object
json(status, body) == [statusCode |-> status, body |-> body]

\* rows[0].map(x => String(x || "").trim())
HeaderOf(rows) == [i \in 1..Len(rows[1]) |-> Trim(rows[1][i])]

\* row[idx] with idx counted from 0: undefined past the end of a short row
CellAt(r, idx) == IF idx + 1 <= Len(r) THEN r[idx + 1] ELSE "undefined"

\* ---- readings of the moisture handler: {ts, vals}, vals keyed by colIdx
\* (a loop that records a value for every identified column, parsed or not)
MoistureValsEveryColumn(r, cols) ==
    [i \in {cols[k].colIdx : k \in 1..Len(cols)} |-> parseFloat(CellAt(r, i)).v]

MoistureVals(r, cols) ==
    LET idxs == {cols[k].colIdx : k \in 1..Len(cols)}
        good == {i \in idxs : ~parseFloat(CellAt(r, i)).nan}
    IN [i \in good |-> parseFloat(CellAt(r, i)).v]

\* (a loop that keeps a row even when none of its cells parsed)
MoistureRowKeepsEmpty(rawTs, ts, vals, rest) ==
    IF rawTs = <<>> THEN rest
    ELSE IF ts.k = "throw" THEN [threw |-> TRUE, list |-> <<>>]
    ELSE IF ts.k = "NaN" THEN rest
    ELSE [threw |-> rest.threw, list |-> <<[ts |-> ts.t, vals |-> vals]>> \o rest.list]

\* one iteration of the for loop over the data rows, given what the rest of
\* the loop yields; threw is set when parseLocalWallTime throws
MoistureRow(rawTs, ts, vals, rest) ==
    IF rawTs = <<>> THEN rest
    ELSE IF ts.k = "throw" THEN [threw |-> TRUE, list |-> <<>>]
    ELSE IF ts.k = "NaN" THEN rest
    ELSE IF DOMAIN vals # {}
         THEN [threw |-> rest.threw, list |-> <<[ts |-> ts.t, vals |-> vals]>> \o rest.list]
         ELSE rest

RECURSIVE MoistureReadingsFrom(_, _, _, _, _, _)
MoistureReadingsFrom(rows, r, cols, tz, h24, legacy) ==
    IF r > Len(rows) THEN [threw |-> FALSE, list |-> <<>>]
    ELSE MoistureRow(rows[r][1], parseLocalWallTime(rows[r][1], tz, h24, legacy),
                     MoistureVals(rows[r], cols),
                     MoistureReadingsFrom(rows, r + 1, cols, tz, h24, legacy))

\* ---- readings of the temperature handler: {ts, temp} of the mapped column,
\* every naive stamp read as America/Chicago wall time
TempRow(rawTs, d, v, rest) ==
    IF rawTs = <<>> \/ d.k = "NaN" THEN rest
    ELSE IF ~v.nan THEN <<[ts |-> d.t, temp |-> v.v]>> \o rest
    ELSE rest

RECURSIVE TempReadingsFrom(_, _, _, _, _)
TempReadingsFrom(rows, i, mapped, h24, legacy) ==
    IF i > Len(rows) THEN <<>>
    ELSE TempRow(rows[i][1], parseLocalWallTime(rows[i][1], "America/Chicago", h24, legacy),
                 parseFloat(CellAt(rows[i], mapped.colIdx)),
                 TempReadingsFrom(rows, i + 1, mapped, h24, legacy))

\* arr.sort((a, b) => a.ts - b.ts): stable, ascending by ts
RECURSIVE InsertByTs(_, _)
InsertByTs(sorted, x) ==
    IF sorted = <<>> THEN <<x>>
    ELSE IF sorted[Len(sorted)].ts <= x.ts THEN Append(sorted, x)
    ELSE Append(InsertByTs(SubSeq(sorted, 1, Len(sorted) - 1), x), sorted[Len(sorted)])

\* (a sort that leaves the readings in row order)
SortByTsKeepsOrder(arr) == arr

RECURSIVE SortByTs(_)
SortByTs(arr) ==
    IF arr = <<>> THEN <<>>
    ELSE InsertByTs(SortByTs(SubSeq(arr, 1, Len(arr) - 1)), arr[Len(arr)])

\* Object.values(vals).sort((a, b) => a - b): the values in ascending order
RECURSIVE SortedValues(_)
SortedValues(vals) ==
    IF DOMAIN vals = {} THEN <<>>
    ELSE LET k == CHOOSE i \in DOMAIN vals : \A j \in DOMAIN vals : vals[i] <= vals[j]
         IN <<vals[k]>> \o SortedValues([i \in DOMAIN vals \ {k} |-> vals[i]])

\* sorted[Math.floor(n / 2)] || 0   (index from 0)
MedianOf(vals) ==
    LET sorted == SortedValues(vals)
    IN IF sorted = <<>> THEN 0 ELSE sorted[(Len(sorted) \div 2) + 1]

\* (a threshold that takes a median of exactly 1 for a percentage)
FactorOfFromOne(median) == IF median >= 100 THEN 1 ELSE 100

\* const factor = median > 1 ? 1 : 100   (values in hundredths: 1 is 100)
FactorOf(median) == IF median > 100 THEN 1 ELSE 100

\* the per-column series within the window: colIdx -> [{ts, v}] in reading
\* order, v = raw * factor; a NaN cutoff excludes nothing
SeriesOf(readings, cols, cutoff, factor) ==
    [c \in {cols[k].colIdx : k \in 1..Len(cols)} |->
        LET Kept(r) == (cutoff.nan \/ r.ts >= cutoff.v) /\ c \in DOMAIN r.vals
            kept == SelectSeq(readings, Kept)
        IN [i \in 1..Len(kept) |-> [ts |-> kept[i].ts, v |-> kept[i].vals[c] * factor]]]

RECURSIVE SumOf(_)
SumOf(nums) == IF nums = <<>> THEN 0 ELSE Head(nums) + SumOf(Tail(nums))

\* one entry of depths: {depthIn, vwc, avg30, mappedDepthIn}; vwc, avg30 and
\* mappedDepthIn in tenths, null as [null |-> TRUE]
Null == [null |-> TRUE, v |-> 0]
Val(v) == [null |-> FALSE, v |-> v]

DepthEntry(wantIn, cols, series) ==
    LET best == NearestColumn(cols, wantIn)
        ser == SortByTs(series[best.colIdx])
        vs == [i \in 1..Len(ser) |-> ser[i].v]
    IN IF ser = <<>>
       THEN [depthIn |-> wantIn.v, vwc |-> Null, avg30 |-> Null,
             mappedDepthIn |-> round1(best.depthInches, 25400)]
       ELSE [depthIn |-> wantIn.v, vwc |-> Val(round1(ser[Len(ser)].v, 100)),
             avg30 |-> Val(round1(SumOf(vs), 100 * Len(ser))),
             mappedDepthIn |-> round1(best.depthInches, 25400)]

\* ---- today's statistics and trends of the temperature handler
\* the first reading holding the maximum (minimum): the loop replaces high
\* (low) only on a strictly greater (smaller) value
FirstMax(arr) ==
    arr[CHOOSE i \in 1..Len(arr) :
            /\ \A j \in 1..Len(arr) : arr[j].temp <= arr[i].temp
            /\ \A j \in 1..(i - 1) : arr[j].temp < arr[i].temp]

\* (the last reading holding the minimum: replaces low on a smaller or equal value)
LastMin(arr) ==
    arr[CHOOSE i \in 1..Len(arr) :
            /\ \A j \in 1..Len(arr) : arr[j].temp >= arr[i].temp
            /\ \A j \in (i + 1)..Len(arr) : arr[j].temp > arr[i].temp]

FirstMin(arr) ==
    arr[CHOOSE i \in 1..Len(arr) :
            /\ \A j \in 1..Len(arr) : arr[j].temp >= arr[i].temp
            /\ \A j \in 1..(i - 1) : arr[j].temp > arr[i].temp]

\* (the mean reported only when it is truthy: a mean of 0 reads as absent)
avgTodayTruthy(todayReadings) ==
    IF todayReadings = <<>> \/ SumOf([i \in 1..Len(todayReadings) |-> todayReadings[i].temp]) = 0
    THEN Null
    ELSE Val(round1(SumOf([i \in 1..Len(todayReadings) |-> todayReadings[i].temp]),
                    100 * Len(todayReadings)))

\* avgToday = todayReadings.length ? sum / todayReadings.length : null, as the
\* answer reports it: avgToday !== null ? round1(avgToday) : null
avgToday(todayReadings) ==
    IF todayReadings = <<>> THEN Null
    ELSE Val(round1(SumOf([i \in 1..Len(todayReadings) |-> todayReadings[i].temp]),
                    100 * Len(todayReadings)))

\* (the mean of all the readings, whatever the cutoff)
avgOverAll(readings, nowMs, daysBack) ==
    [n |-> Len(readings), sum |-> SumOf([i \in 1..Len(readings) |-> readings[i].temp])]

\* avgOver(daysBack): [sum, n] of the readings at or after the cutoff
avgOver(readings, nowMs, daysBack) ==
    LET InWindow(r) == r.ts >= nowMs - daysBack * 86400
        arr == SelectSeq(readings, InWindow)
    IN [n |-> Len(arr), sum |-> SumOf([i \in 1..Len(arr) |-> arr[i].temp])]

\* {avg, delta} of a trend, in tenths
TrendOf(readings, latest, nowMs, daysBack) ==
    LET a == avgOver(readings, nowMs, daysBack)
    IN IF a.n = 0 THEN [avg |-> Null, delta |-> Null]
       ELSE [avg |-> Val(round1(a.sum, 100 * a.n)),
             delta |-> Val(round1(latest.temp * a.n - a.sum, 100 * a.n))]

\* ------------------------------------------- the timestamps that are tried
\* A timestamp is written from a date part, a separator, a time part and a zone
\* suffix, optionally padded with blanks; f holds the field values.
DatePart(kind, f) ==
    CASE kind = "ymd-" -> Digits(f.Y, 4) \o <<"-">> \o Digits(f.M, 2) \o <<"-">> \o Digits(f.D, 2)
      [] kind = "ymd/" -> Digits(f.Y, 4) \o <<"/">> \o Digits(f.M, 2) \o <<"/">> \o Digits(f.D, 2)
      [] kind = "dmy-" -> Digits(f.D, 2) \o <<"-">> \o Digits(f.M, 2) \o <<"-">> \o Digits(f.Y, 4)
      [] kind = "y-m-d" -> Digits(f.Y, 4) \o <<"-">> \o Digits(f.M, 1) \o <<"-">> \o Digits(f.D, 1)
      [] OTHER -> <<>>

SepPart(kind) ==
    CASE kind = "space" -> <<" ">>
      [] kind = "T" -> <<"T">>
      [] kind = "spaces" -> <<" ", " ">>
      [] OTHER -> <<>>

TimePart(kind, f) ==
    CASE kind = "hm" -> Digits(f.h, 2) \o <<":">> \o Digits(f.i, 2)
      [] kind = "hms" -> Digits(f.h, 2) \o <<":">> \o Digits(f.i, 2) \o <<":">> \o Digits(f.s, 2)
      [] kind = "h:m" -> Digits(f.h, 1) \o <<":">> \o Digits(f.i, 2)
      [] OTHER -> <<>>

SuffixPart(kind) ==
    CASE kind = "Z" -> <<"Z">>
      [] kind = "+hh:mm" -> <<"+", "0", "5", ":", "3", "0">>
      [] kind = "-hhmm" -> <<"-", "0", "5", "0", "0">>
      [] OTHER -> <<>>

Written(sh) ==
    LET body == DatePart(sh.date, sh.f) \o SepPart(sh.sep) \o TimePart(sh.time, sh.f)
                    \o SuffixPart(sh.suffix)
    IN IF sh.pad THEN <<" ">> \o body \o <<" ">> ELSE body

\* the dates the stamps are taken around: the 2024 transitions of the two
\* zones with daylight time, a winter day and a summer day
AnchorDays ==
    { DaysFromCivil(2024, 3, 10), DaysFromCivil(2024, 11, 3), DaysFromCivil(2024, 3, 31),
      DaysFromCivil(2024, 10, 27), DaysFromCivil(2024, 1, 15), DaysFromCivil(2024, 7, 15) }

StampFields ==
    { [Y |-> CivilFromDays(a + k).year, M |-> CivilFromDays(a + k).month,
       D |-> CivilFromDays(a + k).day, h |-> h, i |-> i, s |-> 0] :
         a \in AnchorDays, k \in (0 - DaySpread)..DaySpread, h \in 0..23, i \in {0, 30} }

SampleFields == [Y |-> 2024, M |-> 3, D |-> 10, h |-> 9, i |-> 30, s |-> 0]

\* well-formed naive stamps over all the field values ...
NaiveShapes ==
    { [date |-> "ymd-", sep |-> "space", time |-> "hms", suffix |-> "none", pad |-> FALSE, f |-> f] :
        f \in StampFields }
    \cup { [date |-> "ymd/", sep |-> "T", time |-> "hm", suffix |-> "none", pad |-> FALSE, f |-> f] :
        f \in StampFields }

\* ... and every way of writing one sample
SampleShapes ==
    { [date |-> d, sep |-> sp, time |-> t, suffix |-> z, pad |-> pd, f |-> SampleFields] :
        d \in {"ymd-", "ymd/", "dmy-", "y-m-d", "none"},
        sp \in {"space", "T", "spaces", "none"},
        t \in {"hm", "hms", "h:m", "none"},
        z \in {"none", "Z", "+hh:mm", "-hhmm"},
        pd \in BOOLEAN }

TimeZoneInputs == ZoneNames \cup {"Not/AZone"}

\* ------------------------------------------------------------ specifications
CsvIdle ==
    /\ text = <<>> /\ origin = [kind |-> "raw", rows |-> <<>>, finalNewline |-> FALSE]
    /\ pos = 1 /\ row = <<>> /\ cur = <<>> /\ inQ = FALSE /\ out = <<>> /\ cpc = "idle"

WallIdle ==
    /\ tsRaw = <<>> /\ shape = "none" /\ timeZone = "UTC" /\ hour24 = FALSE
    /\ legacyOk = FALSE /\ parsed = "pending" /\ wpc = "idle"

SelIdle ==
    /\ selVariant = "moisture" /\ selHeader = <<>> /\ selWant = NaN /\ selCols = <<>>
    /\ selBest = "pending" /\ spc = "idle"

\* the handler's locals before any statement has run
NoLocals ==
    [days |-> NaN, depthsReq |-> <<>>, depthReqIn |-> NaN, tz |-> DefaultTz, from |-> <<>>,
     rows |-> <<>>, header |-> <<>>, cols |-> <<>>, mapped |-> [colIdx |-> 0, depthInches |-> 0],
     readings |-> <<>>, factor |-> 0, cutoffMs |-> NaN, series |-> <<>>,
     todayKey |-> <<>>, nowMs |-> 0]

NoResponse == [statusCode |-> 0, body |-> <<>>]

HandlerIdle ==
    /\ fn = "moisture"
    /\ event = [httpMethod |-> "GET", name |-> <<>>, days |-> <<>>, depth |-> <<>>,
                tz |-> <<>>, flag |-> <<>>]
    /\ env = [key |-> <<>>, hour24 |-> FALSE, legacyOk |-> FALSE]
    /\ upstream = [kind |-> "ok", status |-> 200, body |-> <<>>, delay |-> 0]
    /\ clock = 0 /\ fetches = 0 /\ locals = NoLocals /\ hpc = "idle"
    /\ response = NoResponse /\ earlier = <<>>

\* ---- parseCSV run on a text
CsvInit ==
    /\ origin \in CsvOrigins
    /\ IF origin.kind = "raw"
       THEN text \in SeqsUpTo(CsvAlphabet, MaxTextLen)
       ELSE text = SerializeTable(origin.rows, origin.finalNewline)
    /\ pos = 1 /\ row = <<>> /\ cur = <<>> /\ inQ = FALSE /\ out = <<>>
    /\ cpc = "scan"
    /\ WallIdle /\ SelIdle /\ HandlerIdle

\* one iteration of the loop
CsvStep ==
    /\ cpc = "scan" /\ pos <= Len(text)
    /\ LET nx == IF pos + 1 <= Len(text) THEN text[pos + 1] ELSE ""
           r == ScanChar([row |-> row, cur |-> cur, inQ |-> inQ, out |-> out], text[pos], nx)
       IN /\ row' = r.row /\ cur' = r.cur /\ inQ' = r.inQ /\ out' = r.out
          /\ pos' = pos + r.skip
    /\ UNCHANGED <<text, origin, cpc>>
    /\ UNCHANGED <<wallVars, selVars, handlerVars>>

\* the loop has ended: flush the trailing row and return out
CsvFinish ==
    /\ cpc = "scan" /\ pos > Len(text)
    /\ out' = FlushTail([row |-> row, cur |-> cur, inQ |-> inQ, out |-> out])
    /\ cpc' = "done"
    /\ UNCHANGED <<text, origin, pos, row, cur, inQ>>
    /\ UNCHANGED <<wallVars, selVars, handlerVars>>

CsvNext == CsvStep \/ CsvFinish

SpecCsv == CsvInit /\ [][CsvNext]_vars

\* ---- parseLocalWallTime called on a timestamp
WallInit ==
    /\ shape \in NaiveShapes \cup SampleShapes
    /\ tsRaw = Written(shape)
    /\ timeZone \in TimeZoneInputs
    /\ hour24 \in BOOLEAN
    /\ legacyOk \in (IF LooksZoned(Trim(tsRaw)) THEN BOOLEAN ELSE {FALSE})
    /\ parsed = "pending" /\ wpc = "call"
    /\ CsvIdle /\ SelIdle /\ HandlerIdle

WallResolve ==
    /\ wpc = "call"
    /\ parsed' = parseLocalWallTime(tsRaw, timeZone, hour24, legacyOk)
    /\ wpc' = "done"
    /\ UNCHANGED <<tsRaw, shape, timeZone, hour24, legacyOk>>
    /\ UNCHANGED <<csvVars, selVars, handlerVars>>

WallNext == WallResolve

SpecWall == WallInit /\ [][WallNext]_vars

\* ---- column identification followed by the nearest-depth loop
SelInit ==
    /\ selVariant \in {"moisture", "temp"}
    /\ selHeader \in SelHeaders(selVariant)
    /\ selWant \in SelWants
    /\ selCols = <<>> /\ selBest = "pending" /\ spc = "identify"
    /\ CsvIdle /\ WallIdle /\ HandlerIdle

SelIdentify ==
    /\ spc = "identify"
    /\ selCols' = IdentifyColumns(selHeader, selVariant)
    /\ spc' = "select"
    /\ UNCHANGED <<selVariant, selHeader, selWant, selBest>>
    /\ UNCHANGED <<csvVars, wallVars, handlerVars>>

SelSelect ==
    /\ spc = "select" /\ selCols # <<>>
    /\ selBest' = NearestColumn(selCols, selWant)
    /\ spc' = "done"
    /\ UNCHANGED <<selVariant, selHeader, selWant, selCols>>
    /\ UNCHANGED <<csvVars, wallVars, handlerVars>>

SelNext == SelIdentify \/ SelSelect

SpecSelect == SelInit /\ [][SelNext]_vars

\* ---- column identification alone, for the three handlers
IdLetter(variant) == IF variant = "vwc" THEN "V" ELSE SelLetter(variant)
IdKeyword(variant) ==
    IF variant = "vwc" THEN "theta" ELSE IF variant = "temp" THEN "Temp" ELSE "Moisture"

\* header cells: channel labels with and without a depth, channels in and out
\* of the wiring table, free-text labels with and without a unit, and others
IdCells(variant) ==
    { DateTimeCell, <<>>, <<"x">>,
      ChannelCell(IdLetter(variant), 1, 15), ChannelCell(IdLetter(variant), 3, 57),
      <<IdLetter(variant), "1">>, <<"v", "2">>, <<IdLetter(variant), "3">>,
      <<IdKeyword(variant), " ", "2", "5", " ", "cm">>,
      <<IdKeyword(variant), " ", "2", "5">>,
      <<"V", "3", " ", IdKeyword(variant), " ", "5", "cm">> }

IdHeaders(variant) == UNION {[1..n -> IdCells(variant)] : n \in 1..MaxCols}

IdInit ==
    /\ selVariant \in {"moisture", "temp", "vwc"}
    /\ selHeader \in IdHeaders(selVariant)
    /\ selWant = NaN /\ selCols = <<>> /\ selBest = "pending" /\ spc = "identify"
    /\ CsvIdle /\ WallIdle /\ HandlerIdle

IdIdentify ==
    /\ spc = "identify"
    /\ selCols' = ColumnsOf(selHeader, selVariant)
    /\ spc' = "done"
    /\ UNCHANGED <<selVariant, selHeader, selWant, selBest>>
    /\ UNCHANGED <<csvVars, wallVars, handlerVars>>

SpecIdentify == IdInit /\ [][IdIdentify]_vars

\* ------------------------------------------------- one handler invocation

\* the upstream CSV as IrriMAX writes it: unquoted cells, LF after every row
RECURSIVE PlainRow(_)
PlainRow(r) == IF Len(r) = 1 THEN r[1] ELSE Head(r) \o <<COMMA>> \o PlainRow(Tail(r))

RECURSIVE PlainCsv(_)
PlainCsv(rs) == IF rs = <<>> THEN <<>> ELSE PlainRow(Head(rs)) \o <<LF>> \o PlainCsv(Tail(rs))

StampCell(date, sep, time, suffix, M, D, h, i) ==
    Written([date |-> date, sep |-> sep, time |-> time, suffix |-> suffix, pad |-> FALSE,
             f |-> [Y |-> 2024, M |-> M, D |-> D, h |-> h, i |-> i, s |-> 0]])

\* the invocation starts at 2024-07-15 23:59:00 America/Chicago
ClockStart == DateUTC(2024, 6, 16, 4, 59, 0)

\* the upstream request returns at once or two minutes later
FetchDelays == {0, 120}

TodayA == StampCell("ymd-", "space", "hms", "none", 7, 15, 10, 0)
TodayB == StampCell("ymd/", "space", "hm", "none", 7, 15, 14, 0)
TodayZ == StampCell("ymd-", "T", "hms", "Z", 7, 15, 12, 0)
Midnight == StampCell("ymd-", "space", "hms", "none", 7, 15, 5, 30)
LastWeek == StampCell("ymd-", "space", "hms", "none", 7, 8, 8, 0)
LongAgo == StampCell("ymd-", "space", "hms", "none", 6, 1, 8, 0)

DataRows ==
    { <<TodayA, <<"0", ".", "3", "1">>, <<"0", ".", "5", "2">>>>,
      <<TodayB, <<"3", "1", ".", "2">>, <<"5", "2", ".", "1">>>>,
      <<LastWeek, <<"1">>, <<"1">>>>,
      <<LongAgo, <<"0", ".", "9">>, <<"1", ".", "2">>>>,
      <<<<"n", "/", "a">>, <<"3", "1", ".", "2">>, <<"5", "2", ".", "1">>>>,
      <<TodayA, <<>>, <<"a", "b", "c">>>>,
      <<TodayZ, <<"0", ".", "3", "1">>, <<>>>>,
      <<Midnight, <<"0", ".", "5">>, <<"1", ".", "5">>>>,
      <<TodayB, <<"3", "1", ".", "2">>>>,
      <<<<>>, <<"3", "1", ".", "2">>, <<"5", "2", ".", "1">>>> }

HeaderRows(f) ==
    { <<DateTimeCell, ChannelCell(SelLetter(f), 1, 15), ChannelCell(SelLetter(f), 2, 57)>>,
      <<DateTimeCell, <<"V", "1">>, ChannelCell("S", 1, 15)>>,
      <<DateTimeCell, <<"x">>,
        <<(IF f = "temp" THEN "Temp" ELSE "Moisture"), " ", "2", "5", " ", "cm">>>> }

Bodies(f) ==
    { PlainCsv(<<h>> \o rs) :
        h \in HeaderRows(f), rs \in UNION {[1..n -> DataRows] : n \in 0..MaxRows} }
    \cup {<<>>, <<LF>>}

PlainEvent ==
    [httpMethod |-> "GET", name |-> <<"L", "1">>, days |-> <<>>, depth |-> <<>>,
     tz |-> "", flag |-> <<>>]

DaysParams == {<<>>, <<"7">>, <<"a", "b", "c">>, <<"0">>, <<"-", "5">>}
DepthParams == {<<>>, <<"2", "0">>, <<"a", "b", "c">>, <<"6", COMMA, "a", COMMA, "-", "1">>}
TzParams == {"", "Asia/Kolkata", "Not/AZone"}

\* a body whose only stamp carries a zone, and three with naive stamps
RequestBodies(f) ==
    LET h == <<DateTimeCell, ChannelCell(SelLetter(f), 1, 15), ChannelCell(SelLetter(f), 2, 57)>>
    IN { PlainCsv(<<h, <<TodayZ, <<"1", ".", "2">>, <<>>>>>>),
         PlainCsv(<<h, <<TodayA, <<"-", "1", ".", "5">>, <<"0">>>>,
                       <<TodayB, <<"1", ".", "5">>, <<"0">>>>>>),
         PlainCsv(<<h, <<TodayA, <<"0", ".", "3", "1">>, <<"0", ".", "5", "2">>>>,
                       <<TodayB, <<"3", "1", ".", "2">>, <<"5", "2", ".", "1">>>>>>),
         PlainCsv(<<h, <<LongAgo, <<"0", ".", "9">>, <<"1", ".", "2">>>>,
                       <<TodayA, <<"0", ".", "3", "1">>, <<"0", ".", "5", "2">>>>>>) }

PlainEnv == [key |-> <<"k">>, hour24 |-> FALSE, legacyOk |-> FALSE]

\* the invocations tried: every body under the plain request, on both kinds
\* of runtime and, on the first kind, with both delays ...
BodyScenario ==
    \E f \in {"moisture", "temp"}, h24 \in BOOLEAN, d \in FetchDelays :
        \E b \in Bodies(f) :
            /\ (h24 => d = 0)
            /\ fn = f /\ event = PlainEvent
            /\ env = [PlainEnv EXCEPT !.hour24 = h24]
            /\ upstream = [kind |-> "ok", status |-> 200, body |-> b, delay |-> d]

\* ... every combination of parameters on a few bodies ...
RequestScenario ==
    \E f \in {"moisture", "temp"}, dy \in DaysParams, dp \in DepthParams, z \in TzParams,
       fl \in {<<>>, <<"1">>} :
        \E b \in RequestBodies("moisture") \cup RequestBodies("temp") :
            /\ fn = f
            /\ event = [httpMethod |-> "GET", name |-> <<"L", "1">>, days |-> dy,
                        depth |-> dp, tz |-> z, flag |-> fl]
            /\ env = PlainEnv
            /\ upstream = [kind |-> "ok", status |-> 200, body |-> b, delay |-> 0]

\* ... and every failed precondition and upstream failure
FailureScenario ==
    \E f \in {"moisture", "temp"}, m \in {"GET", "OPTIONS"}, n \in {<<>>, <<"L", "1">>},
       k \in {<<>>, <<"k">>}, u \in {"reject", "http"}, st \in {404, 503} :
            /\ fn = f
            /\ event = [PlainEvent EXCEPT !.httpMethod = m, !.name = n]
            /\ env = [PlainEnv EXCEPT !.key = k]
            /\ upstream = [kind |-> u, status |-> st, body |-> <<"n", "o">>, delay |-> 0]

HandlerInit ==
    /\ BodyScenario \/ RequestScenario \/ FailureScenario
    /\ clock = ClockStart /\ fetches = 0 /\ locals = NoLocals /\ hpc = "invoked"
    /\ response = NoResponse /\ earlier = <<>>
    /\ CsvIdle /\ WallIdle /\ SelIdle

Return(resp) ==
    /\ response' = resp
    /\ hpc' = "done"

\* the CORS preflight branch
HOptions ==
    /\ hpc = "invoked" /\ event.httpMethod = "OPTIONS"
    /\ Return([statusCode |-> 204, body |-> <<>>])
    /\ UNCHANGED <<fn, event, env, upstream, clock, fetches, locals>>
    /\ UNCHANGED <<csvVars, wallVars, selVars, earlier>>

\* (the credential checked before the name)
PreconditionsKeyFirst(name, key) ==
    IF key = <<>> THEN [status |-> 500, error |-> "Missing IRRIMAX_API_KEY env var"]
    ELSE IF name = <<>> THEN [status |-> 400, error |-> "Missing ?name=LOGGER_NAME"]
    ELSE [status |-> 0, error |-> ""]

\* if (!name) return json(400, ...); if (!key) return json(500, ...): the
\* answer of the failed check, status 0 when both checks pass
Preconditions(name, key) ==
    IF name = <<>> THEN [status |-> 400, error |-> "Missing ?name=LOGGER_NAME"]
    ELSE IF key = <<>> THEN [status |-> 500, error |-> "Missing IRRIMAX_API_KEY env var"]
    ELSE [status |-> 0, error |-> ""]

\* from the top of the try block to the await of fetch(url)
HStart ==
    /\ hpc = "invoked" /\ event.httpMethod # "OPTIONS"
    /\ LET tz == IF event.tz = "" THEN DefaultTz ELSE event.tz
           days == DaysRequested(event.days)
           since == SinceOf(clock, days)
           l1 == [locals EXCEPT !.tz = tz, !.days = days,
                                !.depthsReq = DepthsRequested(event.depth),
                                !.depthReqIn = DepthRequested(event.depth)]
       IN IF Preconditions(event.name, env.key).status # 0
          THEN /\ Return(json(Preconditions(event.name, env.key).status,
                              [error |-> Preconditions(event.name, env.key).error]))
               /\ locals' = l1
               /\ UNCHANGED fetches
          ELSE /\ locals' = [l1 EXCEPT !.from = ymdHMS_utc(since)]
               /\ fetches' = fetches + 1
               /\ hpc' = "fetching"
               /\ UNCHANGED response
    /\ UNCHANGED <<fn, event, env, upstream, clock>>
    /\ UNCHANGED <<csvVars, wallVars, selVars, earlier>>

\* fetch rejects (no connection): the catch block answers
HFetchRejected ==
    /\ hpc = "fetching" /\ upstream.kind = "reject"
    /\ Return(json(500, [error |-> "fetch failed"]))
    /\ UNCHANGED <<fn, event, env, upstream, clock, fetches, locals>>
    /\ UNCHANGED <<csvVars, wallVars, selVars, earlier>>

\* (a handler that asks the upstream a second time before it answers 502)
HFetchFailedRetried ==
    /\ hpc = "fetching" /\ upstream.kind = "http"
    /\ fetches' = fetches + 1
    /\ Return(json(502, [error |-> "IrriMAX fetch failed", status |-> upstream.status,
                         body |-> upstream.body]))
    /\ clock' = clock + upstream.delay
    /\ UNCHANGED <<fn, event, env, upstream, locals>>
    /\ UNCHANGED <<csvVars, wallVars, selVars, earlier>>

\* the upstream answers with a status outside 200..299
HFetchFailed ==
    /\ hpc = "fetching" /\ upstream.kind = "http"
    /\ Return(json(502, [error |-> "IrriMAX fetch failed", status |-> upstream.status,
                         body |-> upstream.body]))
    /\ clock' = clock + upstream.delay
    /\ UNCHANGED <<fn, event, env, upstream, fetches, locals>>
    /\ UNCHANGED <<csvVars, wallVars, selVars, earlier>>

\* the handler from the header row to the check of the depth columns
HeaderRead(rows, header, cols) ==
    IF fn = "temp" /\ event.flag = <<"1">>
    THEN /\ Return(json(200, [header |-> header]))
         /\ locals' = [locals EXCEPT !.rows = rows, !.header = header]
    ELSE IF cols = <<>>
    THEN /\ Return(json(500, [error |-> IF fn = "temp" THEN "No depth columns detected"
                                        ELSE "No A#(cm) moisture columns detected",
                              header |-> header]))
         /\ locals' = [locals EXCEPT !.rows = rows, !.header = header]
    ELSE /\ locals' = [locals EXCEPT !.rows = rows, !.header = header, !.cols = cols]
         /\ hpc' = "columns"
         /\ UNCHANGED response

\* the handler from parseCSV's result on
BodyParsed(rows) ==
    IF rows = <<>>
    THEN /\ Return(json(200, [note |-> "No data (empty CSV)"]))
         /\ UNCHANGED locals
    ELSE HeaderRead(rows, HeaderOf(rows), IdentifyColumns(HeaderOf(rows), fn))

\* the body arrives: parseCSV, the header, the depth columns
HFetchOk ==
    /\ hpc = "fetching" /\ upstream.kind = "ok"
    /\ clock' = clock + upstream.delay
    /\ BodyParsed(parseCSV(upstream.body))
    /\ UNCHANGED <<fn, event, env, upstream, fetches>>
    /\ UNCHANGED <<csvVars, wallVars, selVars, earlier>>

\* Intl.DateTimeFormat("en-US", {timeZone: tz, hour: "numeric", minute:
\* "2-digit", ...}).format(d): the 12-hour clock reading in the zone
fmtTime(t, tz) ==
    LET local == (t + OffsetAt(tz, t)) % 86400
        h == local \div 3600
    IN [hour |-> ((h + 11) % 12) + 1, minute |-> (local % 3600) \div 60,
        dayPeriod |-> IF h < 12 THEN "AM" ELSE "PM", offset |-> OffsetAt(tz, t)]

\* {value, time, iso} of a reading
Stat(r, tz) == [value |-> round1(r.temp, 100), time |-> fmtTime(r.ts, tz), iso |-> r.ts]

LastUpTo(seq, n) == IF Len(seq) <= n THEN seq ELSE SubSeq(seq, Len(seq) - n + 1, Len(seq))

\* the sample of the peek answer: the last six readings
PeekSample(readings, tz) ==
    [i \in 1..Len(LastUpTo(readings, 6)) |->
        [utcISO |-> LastUpTo(readings, 6)[i].ts,
         local |-> fmtTime(LastUpTo(readings, 6)[i].ts, tz),
         values |-> LastUpTo(readings, 6)[i].vals]]

\* readings.push(...): what the loop yields, pushed onto the array that the
\* invocation declared (const readings = [])
PushedOnto(arr, built) == [threw |-> built.threw, list |-> arr \o built.list]

\* soil-moisture.js after its loop over the data rows
MoistureReadingsBuilt(built) ==
    IF built.threw
    THEN /\ Return(json(500, [error |-> "Invalid time zone specified"]))
         /\ UNCHANGED locals
    ELSE IF built.list = <<>>
    THEN /\ Return(json(200, [error |-> "No moisture readings parsed.",
                              header |-> locals.header]))
         /\ UNCHANGED locals
    ELSE IF event.flag = <<"1">>
    THEN /\ IF locals.tz \notin ZoneNames
            THEN Return(json(500, [error |-> "Invalid time zone specified"]))
            ELSE Return(json(200, [header |-> locals.header, mappedColumns |-> locals.cols,
                                   sample |-> PeekSample(built.list, locals.tz)]))
         /\ locals' = [locals EXCEPT !.readings = built.list]
    ELSE /\ locals' = [locals EXCEPT !.readings = built.list]
         /\ hpc' = "readings"
         /\ UNCHANGED response

\* soil-temp.js after its loop over the data rows
TempReadingsBuilt(mapped, readings) ==
    IF readings = <<>>
    THEN /\ Return(json(200, [error |-> "No readings parsed.", header |-> locals.header]))
         /\ locals' = [locals EXCEPT !.mapped = mapped]
    ELSE /\ locals' = [locals EXCEPT !.mapped = mapped, !.readings = readings]
         /\ hpc' = "readings"
         /\ UNCHANGED response

TempMapped(mapped) ==
    TempReadingsBuilt(mapped,
                      locals.readings
                          \o TempReadingsFrom(locals.rows, 2, mapped, env.hour24, env.legacyOk))

\* the loop over the data rows, the "no readings" answer and the peek answer
HReadings ==
    /\ hpc = "columns"
    /\ IF fn = "moisture"
       THEN MoistureReadingsBuilt(PushedOnto(locals.readings,
                                             MoistureReadingsFrom(locals.rows, 2, locals.cols,
                                                                  locals.tz, env.hour24,
                                                                  env.legacyOk)))
       ELSE TempMapped(NearestColumn(locals.cols, locals.depthReqIn))
    /\ UNCHANGED <<fn, event, env, upstream, clock, fetches>>
    /\ UNCHANGED <<csvVars, wallVars, selVars, earlier>>

\* soil-moisture.js from the series to the answer
SeriesBuilt(factor, cutoffMs, series) ==
    /\ locals' = [locals EXCEPT !.factor = factor, !.cutoffMs = cutoffMs, !.series = series]
    /\ Return(json(200, [name |-> event.name, tz |-> locals.tz, days |-> locals.days,
                         depths |-> [i \in 1..Len(locals.depthsReq) |->
                                        DepthEntry(locals.depthsReq[i], locals.cols, series)]]))

\* soil-moisture.js from the unit detection on
UnitsDetected(factor, cutoffMs) ==
    SeriesBuilt(factor, cutoffMs, SeriesOf(locals.readings, locals.cols, cutoffMs, factor))

\* soil-temp.js: today's statistics, the trends and the answer
TodayFiltered(readings, latest, todayKey, todayReadings, nowMs) ==
    /\ locals' = [locals EXCEPT !.readings = readings, !.todayKey = todayKey, !.nowMs = nowMs]
    /\ Return(json(200,
         [name |-> event.name, tz |-> locals.tz, units |-> "as-reported",
          depthRequestedIn |-> locals.depthReqIn,
          depthMappedIn |-> round1(locals.mapped.depthInches, 25400),
          columnHeader |-> locals.header[locals.mapped.colIdx + 1],
          current |-> Stat(latest, locals.tz),
          high |-> IF todayReadings = <<>> THEN Null
                   ELSE Stat(FirstMax(todayReadings), locals.tz),
          low |-> IF todayReadings = <<>> THEN Null
                  ELSE Stat(FirstMin(todayReadings), locals.tz),
          avg |-> avgToday(todayReadings),
          count |-> Len(todayReadings),
          trend7d |-> TrendOf(readings, latest, nowMs, 7),
          trend30d |-> TrendOf(readings, latest, nowMs, 30)]))

\* readings.filter(r => dateOnly_tz(r.ts, tz) === todayKey)
TodayReadings(readings, tz, todayKey) ==
    LET IsToday(r) == dateOnly_tz(r.ts, tz) = todayKey
    IN SelectSeq(readings, IsToday)

\* soil-temp.js from the sort on; an unknown zone makes dateOnly_tz throw
ReadingsSorted(readings) ==
    IF locals.tz \notin ZoneNames
    THEN /\ Return(json(500, [error |-> "Invalid time zone specified"]))
         /\ locals' = [locals EXCEPT !.readings = readings]
    ELSE TodayFiltered(readings, readings[Len(readings)], dateOnly_tz(clock, locals.tz),
                       TodayReadings(readings, locals.tz, dateOnly_tz(clock, locals.tz)),
                       clock)

\* the aggregation and the 200 answer
HRespond ==
    /\ hpc = "readings"
    /\ IF fn = "moisture"
       THEN UnitsDetected(FactorOf(MedianOf(locals.readings[Len(locals.readings)].vals)),
                          SinceOf(clock, locals.days))
       ELSE ReadingsSorted(SortByTs(locals.readings))
    /\ UNCHANGED <<fn, event, env, upstream, clock, fetches>>
    /\ UNCHANGED <<csvVars, wallVars, selVars, earlier>>

HandlerNext ==
    HOptions \/ HStart \/ HFetchRejected \/ HFetchFailed \/ HFetchOk \/ HReadings \/ HRespond

SpecHandler == HandlerInit /\ [][HandlerNext]_vars

\* ---- the same instance of the function invoked again
\* (an invocation that finds the locals of the one before, as if they were
\* declared outside the handler)
HInvokeAgainSharedLocals ==
    /\ hpc = "done" /\ Len(earlier) + 1 < MaxRuns
    /\ earlier' = Append(earlier, response)
    /\ clock' = ClockStart /\ fetches' = 0
    /\ hpc' = "invoked" /\ response' = NoResponse
    /\ UNCHANGED <<fn, event, env, upstream, locals>>
    /\ UNCHANGED <<csvVars, wallVars, selVars>>

\* exports.handler is called again after it has answered, with the same
\* event, the same environment, the same upstream answer and the clock at
\* the same instant; every variable of the handler is declared inside it, so
\* the new invocation starts from fresh locals
HInvokeAgain ==
    /\ hpc = "done" /\ Len(earlier) + 1 < MaxRuns
    /\ earlier' = Append(earlier, response)
    /\ clock' = ClockStart /\ fetches' = 0 /\ locals' = NoLocals
    /\ hpc' = "invoked" /\ response' = NoResponse
    /\ UNCHANGED <<fn, event, env, upstream>>
    /\ UNCHANGED <<csvVars, wallVars, selVars>>

\* the plain request on the bodies of RequestBodies, with both delays
RepeatScenario ==
    \E f \in {"moisture", "temp"}, d \in FetchDelays :
        \E b \in RequestBodies(f) :
            /\ fn = f /\ event = PlainEvent /\ env = PlainEnv
            /\ upstream = [kind |-> "ok", status |-> 200, body |-> b, delay |-> d]

RepeatInit ==
    /\ RepeatScenario \/ RequestScenario \/ FailureScenario
    /\ clock = ClockStart /\ fetches = 0 /\ locals = NoLocals /\ hpc = "invoked"
    /\ response = NoResponse /\ earlier = <<>>
    /\ CsvIdle /\ WallIdle /\ SelIdle

RepeatNext == HandlerNext \/ HInvokeAgain

SpecRepeat == RepeatInit /\ [][RepeatNext]_vars

\* ------------------------------------------------- claims on the handlers

\* what the caller can see of the answer without reading message texts
Structure == [status |-> response.statusCode, keys |-> DOMAIN response.body]

Shape(status, keys) == [status |-> status, keys |-> keys]

\* the request passed the preconditions and the upstream answered with a body
Fetched ==
    /\ event.httpMethod # "OPTIONS" /\ event.name # <<>> /\ env.key # <<>>
    /\ upstream.kind = "ok"

DebugAsked == fn = "temp" /\ event.flag = <<"1">>
PeekAsked == fn = "moisture" /\ event.flag = <<"1">>

\* the table the handler parsed and the columns it identified
UpRows == locals.rows
UpCols == locals.cols
DataRowsOf(rows) == {rows[r] : r \in 2..Len(rows)}

RequestTz == IF event.tz = "" THEN DefaultTz ELSE event.tz
StampTz == IF fn = "temp" THEN "America/Chicago" ELSE RequestTz

\* the columns a reading is built from
ReadColumns ==
    IF fn = "temp" THEN {NearestColumn(UpCols, DepthRequested(event.depth))}
    ELSE {UpCols[k] : k \in 1..Len(UpCols)}

RowYields(r) ==
    /\ r[1] # <<>>
    /\ parseLocalWallTime(r[1], StampTz, env.hour24, env.legacyOk).k = "instant"
    /\ \E c \in ReadColumns : ~parseFloat(CellAt(r, c.colIdx)).nan

RowThrows(r) ==
    /\ r[1] # <<>>
    /\ parseLocalWallTime(r[1], StampTz, env.hour24, env.legacyOk).k = "throw"

NoRows == UpRows = <<>>
NoColumns == UpRows # <<>> /\ UpCols = <<>>
NoReadings == UpRows # <<>> /\ UpCols # <<>> /\ \A r \in DataRowsOf(UpRows) : ~RowYields(r)
SomeRowThrows == UpRows # <<>> /\ \E r \in DataRowsOf(UpRows) : RowThrows(r)

\* C4, as stated: when the upstream CSV has no rows, or its header yields no
\* recognized depth column, or no data row yields a parseable reading, the
\* handler returns a successful (non-error status) result.
C4_EmptyIsSuccess ==
    (hpc = "done" /\ Fetched /\ (NoRows \/ NoColumns \/ NoReadings))
        => response.statusCode \in 200..299

EmptyOutcomes(noReadings, someRowThrows) ==
    /\ NoRows => Structure = Shape(200, {"note"})
    /\ (NoColumns /\ ~DebugAsked) => Structure = Shape(500, {"error", "header"})
    /\ (noReadings /\ ~DebugAsked /\ ~someRowThrows)
           => Structure = Shape(200, {"error", "header"})
    /\ (noReadings /\ ~DebugAsked /\ someRowThrows) => Structure = Shape(500, {"error"})

\* C4, amended: no rows gives 200 with a note; no recognized column gives
\* 500 with error and header; columns but no reading gives 200 with error and
\* header, unless resolving a timestamp threw (unknown time zone), which gives
\* 500 with only error.  The handler answers in every case.
C4_EmptyOutcomes == (hpc = "done" /\ Fetched) => EmptyOutcomes(NoReadings, SomeRowThrows)

C4_Witness ==
    /\ hpc = "done" /\ Fetched /\ fn = "moisture" /\ NoReadings /\ ~SomeRowThrows
    /\ Len(UpRows) > 2
    /\ \E r \in DataRowsOf(UpRows) :
           parseLocalWallTime(r[1], StampTz, env.hour24, env.legacyOk).k = "instant"
    /\ Structure = Shape(200, {"error", "header"})

\* the outcome class of the invocation, from the request, the environment and
\* the upstream answer
Outcome ==
    IF event.httpMethod = "OPTIONS" THEN "preflight"
    ELSE IF event.name = <<>> THEN "missing sensor name"
    ELSE IF env.key = <<>> THEN "missing credential"
    ELSE IF upstream.kind = "reject" THEN "internal exception"
    ELSE IF upstream.kind = "http" THEN "upstream fetch failure"
    ELSE IF NoRows THEN "empty CSV"
    ELSE IF DebugAsked THEN "debug"
    ELSE IF NoColumns THEN "no recognized columns"
    ELSE IF SomeRowThrows THEN "internal exception"
    ELSE IF NoReadings THEN "no parseable readings"
    ELSE IF PeekAsked
         THEN (IF RequestTz \in ZoneNames THEN "peek" ELSE "internal exception")
    ELSE IF fn = "temp" /\ RequestTz \notin ZoneNames THEN "internal exception"
    ELSE "normal success"

ClaimedClasses ==
    {"missing sensor name", "missing credential", "upstream fetch failure", "empty CSV",
     "no recognized columns", "no parseable readings", "internal exception", "normal success"}

\* the status and keys each class answers with
ShapeOf(f, class) ==
    CASE class = "missing sensor name" -> Shape(400, {"error"})
      [] class = "missing credential" -> Shape(500, {"error"})
      [] class = "upstream fetch failure" -> Shape(502, {"error", "status", "body"})
      [] class = "empty CSV" -> Shape(200, {"note"})
      [] class = "no recognized columns" -> Shape(500, {"error", "header"})
      [] class = "no parseable readings" -> Shape(200, {"error", "header"})
      [] class = "internal exception" -> Shape(500, {"error"})
      [] class = "normal success" ->
            IF f = "moisture" THEN Shape(200, {"name", "tz", "days", "depths"})
            ELSE Shape(200, {"name", "tz", "units", "depthRequestedIn", "depthMappedIn",
                             "columnHeader", "current", "high", "low", "avg", "count",
                             "trend7d", "trend30d"})

\* C5, as stated: each outcome class answers with a structure (status and
\* keys) that no other class answers with.
C5_AllDistinguishable ==
    (hpc = "done" /\ Outcome \in ClaimedClasses) =>
        /\ Structure = ShapeOf(fn, Outcome)
        /\ \A c \in ClaimedClasses \ {Outcome} : ShapeOf(fn, c) # Structure

DistinguishableButTwo(class) ==
    class \in ClaimedClasses =>
        /\ Structure = ShapeOf(fn, class)
        /\ \A c \in ClaimedClasses \ {class} :
               ShapeOf(fn, c) = Structure
                   => {c, class} = {"missing credential", "internal exception"}
        /\ class \in {"missing credential", "internal exception"}
               => Structure = Shape(500, {"error"})

\* C5, amended: every class answers with its own structure, except that a
\* missing credential and an internal exception both answer 500 with only
\* the key error.
C5_DistinguishableButTwo == hpc = "done" => DistinguishableButTwo(Outcome)

C5_Witness ==
    /\ hpc = "done" /\ Fetched /\ Outcome = "internal exception"
    /\ Structure = Shape(500, {"error"})

\* the reading with the greatest timestamp (the last of them in row order)
LatestReading(readings) ==
    readings[CHOOSE i \in 1..Len(readings) :
                 /\ \A j \in 1..Len(readings) : readings[j].ts <= readings[i].ts
                 /\ \A j \in (i + 1)..Len(readings) : readings[j].ts < readings[i].ts]

\* twice the median of the values: the middle one, or the mean of the two
\* middle ones
TwiceMedian(vals) ==
    LET sorted == SortedValues(vals)
        n == Len(sorted)
    IN IF n % 2 = 1 THEN 2 * sorted[(n + 1) \div 2]
       ELSE sorted[n \div 2] + sorted[(n \div 2) + 1]

\* C6, as stated: when the median of the latest reading's values is at most 1
\* every value of every series is the parsed value times 100, and when it is
\* greater than 1 every value is the parsed value.
C6_MedianDecidesFactor ==
    (hpc = "done" /\ fn = "moisture" /\ Outcome = "normal success") =>
        LET f == IF TwiceMedian(LatestReading(locals.readings).vals) <= 200 THEN 100 ELSE 1
        IN \A c \in DOMAIN locals.series : \A i \in 1..Len(locals.series[c]) :
               \E k \in 1..Len(locals.readings) :
                   /\ locals.readings[k].ts = locals.series[c][i].ts
                   /\ c \in DOMAIN locals.readings[k].vals
                   /\ locals.series[c][i].v = locals.readings[k].vals[c] * f

\* ---- the temperature answer

\* the temperature handler has answered with its statistics (C5 ties this
\* structure of the answer to the normal outcome)
TempSuccess ==
    /\ hpc = "done" /\ fn = "temp"
    /\ response.statusCode = 200 /\ "current" \in DOMAIN response.body

\* what a data row holds: the resolution of its stamp and the number in the
\* column at colIdx
RowParsed(r, colIdx) ==
    [d |-> IF r[1] = <<>> THEN NaNDate
           ELSE parseLocalWallTime(r[1], StampTz, env.hour24, env.legacyOk),
     v |-> parseFloat(CellAt(r, colIdx))]

RowsParsed(colIdx) == [i \in 2..Len(UpRows) |-> RowParsed(UpRows[i], colIdx)]

\* the readings among them, by row: a resolved instant and a number
Yielding(A) ==
    [i \in {j \in DOMAIN A : A[j].d.k = "instant" /\ ~A[j].v.nan} |->
        [ts |-> A[i].d.t, temp |-> A[i].v.v]]

\* the readings of the table in the column nearest to the requested depth,
\* by row; P below stands for this function
ParsedByRow == Yielding(RowsParsed(NearestColumn(UpCols, DepthRequested(event.depth)).colIdx))

\* the rows whose reading has the greatest instant
LatestRows(P) == {i \in DOMAIN P : \A j \in DOMAIN P : P[j].ts <= P[i].ts}

CurrentIsLatest(P) ==
    \E i \in LatestRows(P) :
        /\ response.body.current.value = round1(P[i].temp, 100)
        /\ response.body.current.iso = P[i].ts

\* C11: the current value of the temperature answer is the value of a reading
\* whose timestamp is the greatest among all the readings parsed from the
\* selected column, whatever the order of the rows and whether or not that
\* reading lies in today's or a trend window.
C11_CurrentIsLatest == TempSuccess => CurrentIsLatest(ParsedByRow)

OutOfOrderLatest(P) ==
    \E i \in LatestRows(P) : \E j \in DOMAIN P :
        /\ i < j /\ P[i].ts > P[j].ts /\ P[i].temp # P[j].temp
        /\ response.body.current.iso = P[i].ts

\* the rows are out of chronological order, the latest reading is not the
\* last row and lies outside today's window
C11_Witness ==
    /\ TempSuccess /\ response.body.count = 0
    /\ OutOfOrderLatest(ParsedByRow)

\* the calendar day (days since the epoch) an instant falls on in a zone
LocalDay(t, tz) == (t + OffsetAt(tz, t)) \div 86400

\* the rows whose reading falls on today's date in the request's zone
TodayRowsOf(P) ==
    {i \in DOMAIN P : LocalDay(P[i].ts, RequestTz) = LocalDay(clock, RequestTz)}

RECURSIVE SumTemps(_, _)
SumTemps(P, S) ==
    IF S = {} THEN 0
    ELSE LET i == CHOOSE k \in S : TRUE IN P[i].temp + SumTemps(P, S \ {i})

\* the rows of S holding the greatest (smallest) value, and the earliest of
\* the instants of the rows of S
MaxRowsOf(P, S) == {i \in S : \A j \in S : P[j].temp <= P[i].temp}
MinRowsOf(P, S) == {i \in S : \A j \in S : P[j].temp >= P[i].temp}
EarliestOf(P, S) == CHOOSE t \in {P[i].ts : i \in S} : \A i \in S : t <= P[i].ts

TodayStatistics(P, T) ==
    /\ response.body.count = Cardinality(T)
    /\ \E i \in MaxRowsOf(P, T) :
           /\ response.body.high = Stat(P[i], RequestTz)
           /\ P[i].ts = EarliestOf(P, MaxRowsOf(P, T))
    /\ \E i \in MinRowsOf(P, T) :
           /\ response.body.low = Stat(P[i], RequestTz)
           /\ P[i].ts = EarliestOf(P, MinRowsOf(P, T))
    /\ response.body.avg = Val(round1(SumTemps(P, T), 100 * Cardinality(T)))

TodayStatisticsOf(P) == TodayRowsOf(P) # {} => TodayStatistics(P, TodayRowsOf(P))

\* C12: count is the number of readings whose calendar date in the request's
\* time zone is today's; high (low) carries the greatest (smallest) value of
\* those readings and the instant of the first reading, in chronological
\* order, that holds it; avg is their arithmetic mean rounded to one decimal.
C12_TodayStatistics == TempSuccess => TodayStatisticsOf(ParsedByRow)

TiedLow(P, T) ==
    /\ Cardinality(T) >= 2
    /\ \E i \in T : \E j \in T : i < j /\ P[i].ts > P[j].ts
    /\ \E i \in MinRowsOf(P, T) : \E j \in MinRowsOf(P, T) : P[i].ts # P[j].ts
    /\ response.body.low.iso = EarliestOf(P, MinRowsOf(P, T))

\* two of today's readings hold the smallest value at different instants, the
\* later of them in the earlier row
C12_Witness == TempSuccess /\ TiedLow(ParsedByRow, TodayRowsOf(ParsedByRow))

RoundedMean(P, T) ==
    /\ Cardinality(T) >= 2
    /\ MaxRowsOf(P, T) # MinRowsOf(P, T)
    /\ (10 * SumTemps(P, T)) % (100 * Cardinality(T)) # 0

\* today's window with distinct values and a mean that needs rounding
C12_WitnessMean == TempSuccess /\ RoundedMean(ParsedByRow, TodayRowsOf(ParsedByRow))

AbsentWhenNoneToday(P, T) ==
    /\ DOMAIN P # {}
    /\ response.body.current # Null
    /\ response.body.current.iso \in {P[i].ts : i \in DOMAIN P}
    /\ T = {} =>
           /\ response.body.count = 0
           /\ response.body.high = Null /\ response.body.low = Null
           /\ response.body.avg = Null
    /\ response.body.count > 0 =>
           /\ T # {}
           /\ response.body.high # Null /\ response.body.low # Null
           /\ ~response.body.avg.null
           /\ (SumTemps(P, T) = 0 => response.body.avg = Val(0))

\* C13: a temperature answer built from at least one reading always reports
\* current; when no reading falls on today's date, count is 0 and high, low
\* and avg are null (not zero); whenever count is greater than 0, high, low
\* and avg are all present, a mean of exactly 0 included.
C13_AbsentWhenNoneToday ==
    TempSuccess => AbsentWhenNoneToday(ParsedByRow, TodayRowsOf(ParsedByRow))

NoneOfToday(P) == Cardinality(DOMAIN P) >= 2 /\ TodayRowsOf(P) = {}

\* readings were parsed, none of them of today
C13_Witness ==
    /\ TempSuccess /\ response.body.count = 0 /\ response.body.avg = Null
    /\ response.body.current.value # 0
    /\ NoneOfToday(ParsedByRow)

\* today's readings -1.5 and 1.5: the mean is exactly 0 and is reported
C13_WitnessZeroMean ==
    /\ TempSuccess /\ response.body.count = 2
    /\ response.body.avg = Val(0) /\ response.body.high.value = 15

\* the rows whose reading lies at or after now minus N days
WindowRows(P, N) == {i \in DOMAIN P : P[i].ts >= clock - N * 86400}

TrendReported(N) == IF N = 7 THEN response.body.trend7d ELSE response.body.trend30d

TrendIs(P, W, trend) ==
    /\ (trend.avg = Null) = (W = {})
    /\ (trend.delta = Null) = (W = {})
    /\ W # {} =>
           /\ trend.avg = Val(round1(SumTemps(P, W), 100 * Cardinality(W)))
           /\ \E i \in LatestRows(P) :
                  trend.delta = Val(round1(P[i].temp * Cardinality(W) - SumTemps(P, W),
                                           100 * Cardinality(W)))

Trends(P) == \A N \in {7, 30} : TrendIs(P, WindowRows(P, N), TrendReported(N))

\* C14: for N in {7, 30} the trend's avg is the arithmetic mean of exactly the
\* readings at or after now minus N days and its delta is the latest
\* reading's value minus that mean, both rounded to one decimal; avg and
\* delta are null exactly when no reading lies in the window.
C14_Trends == TempSuccess => Trends(ParsedByRow)

WindowsDiffer(P) == WindowRows(P, 7) # {} /\ WindowRows(P, 7) # WindowRows(P, 30)

\* a reading of eight days ago lies in the 30-day window only, and the two
\* trends differ
C14_Witness ==
    /\ TempSuccess
    /\ response.body.trend7d.avg # response.body.trend30d.avg
    /\ response.body.trend30d.delta.v # 0
    /\ WindowsDiffer(ParsedByRow)

\* the only readings are older than 30 days: both trends are null
C14_WitnessEmpty ==
    /\ TempSuccess
    /\ response.body.trend30d = [avg |-> Null, delta |-> Null]
    /\ WindowRows(ParsedByRow, 30) = {}

\* ---- the upstream request

\* the request is no preflight and carries a name, and the credential is set
PastPreconditions == event.httpMethod # "OPTIONS" /\ event.name # <<>> /\ env.key # <<>>

C16_PreconditionsBeforeFetch ==
    (event.httpMethod # "OPTIONS" /\ (event.name = <<>> \/ env.key = <<>>)) =>
        /\ fetches = 0
        /\ hpc \in {"invoked", "done"}
        /\ hpc = "done" =>
               response = IF event.name = <<>>
                          THEN [statusCode |-> 400,
                                body |-> [error |-> "Missing ?name=LOGGER_NAME"]]
                          ELSE [statusCode |-> 500,
                                body |-> [error |-> "Missing IRRIMAX_API_KEY env var"]]

\* both the name and the credential are missing
C16_Witness ==
    /\ event.httpMethod # "OPTIONS" /\ event.name = <<>> /\ env.key = <<>>
    /\ hpc = "done" /\ response.statusCode = 400 /\ fetches = 0

\* only the credential is missing
C16_WitnessCredential ==
    /\ event.httpMethod # "OPTIONS" /\ event.name # <<>> /\ env.key = <<>>
    /\ hpc = "done" /\ response.statusCode = 500 /\ fetches = 0

\* ---- repeated invocations

C17_WitnessMoisture ==
    /\ hpc = "done" /\ earlier # <<>> /\ fn = "moisture" /\ Outcome = "normal success"
    /\ upstream.delay > 0 /\ earlier[1] = response

\* ---- the lookback

\* C18, as stated: whatever the days parameter (absent, zero, negative, not
\* a number), the lookback from which the upstream from bound and the series
\* cutoff are computed is a number of at least 1 day.
C18_LookbackAtLeastOneDay ==
    (PastPreconditions /\ hpc # "invoked") =>
        /\ ~locals.days.nan /\ locals.days.v >= 1
        /\ locals.from = ymdHMS_utc(Num(ClockStart - locals.days.v * 86400))
        /\ (hpc = "done" /\ fn = "moisture" /\ Outcome = "normal success")
               => (~locals.cutoffMs.nan /\ locals.cutoffMs.v <= clock - 86400)

\* what holds: a days parameter that is absent or starts with an integer
\* gives a lookback of at least 1 day
C18_NumericLookback ==
    (PastPreconditions /\ hpc # "invoked" /\ ~parseInt(OrDefault(event.days, <<"3", "0">>)).nan) =>
        /\ ~locals.days.nan /\ locals.days.v >= 1
        /\ locals.from = ymdHMS_utc(Num(ClockStart - locals.days.v * 86400))

\* ---- the requested depths

\* C21, as stated: every requested depth that is used to select a column and
\* reported in the answer is a finite positive number, in both handlers.
C21_RequestedDepthPositive ==
    (hpc = "done" /\ response.statusCode = 200) =>
        /\ "depthRequestedIn" \in DOMAIN response.body =>
               /\ ~response.body.depthRequestedIn.nan
               /\ response.body.depthRequestedIn.v > 0
        /\ "depths" \in DOMAIN response.body =>
               \A i \in 1..Len(response.body.depths) : response.body.depths[i].depthIn > 0

\* what holds: the moisture handler drops every part of the depth list that
\* is not a finite positive number before it selects a column
C21_MoistureDepthsPositive ==
    (hpc = "done" /\ fn = "moisture" /\ response.statusCode = 200
         /\ "depths" \in DOMAIN response.body) =>
        /\ \A i \in 1..Len(response.body.depths) : response.body.depths[i].depthIn > 0
        /\ Len(response.body.depths) <= Len(SplitCommas(OrDefault(event.depth, <<"6", COMMA, "2", "2">>)))

\* ---- the unit factor

\* the moisture handler has answered with its depths
MoistureSuccess ==
    /\ hpc = "done" /\ fn = "moisture"
    /\ response.statusCode = 200 /\ "depths" \in DOMAIN response.body

\* every value of every series is a parsed value of the same instant and
\* column, times f
SeriesScaledBy(f) ==
    \A c \in DOMAIN locals.series : \A i \in 1..Len(locals.series[c]) :
        \E k \in 1..Len(locals.readings) :
            /\ locals.readings[k].ts = locals.series[c][i].ts
            /\ c \in DOMAIN locals.readings[k].vals
            /\ locals.series[c][i].v = locals.readings[k].vals[c] * f

SomeSeriesValue == \E c \in DOMAIN locals.series : locals.series[c] # <<>>

\* C22, as stated: when the median of the latest reading's values is exactly
\* 1.0 the scale factor is 1 and the series values are left unscaled.
C22_MedianOneUnscaled ==
    (MoistureSuccess /\ TwiceMedian(LatestReading(locals.readings).vals) = 200) =>
        /\ locals.factor = 1
        /\ SeriesScaledBy(1)

\* C22, amended: when the value the handler takes for the median (the middle
\* value, the upper of the two middle ones for an even count, of the values
\* of the last reading in row order) is exactly 1.0, the values are taken for
\* fractions: the scale factor is 100 and every series value is the parsed
\* value times 100.
C22_MedianOneScaled ==
    (MoistureSuccess /\ MedianOf(locals.readings[Len(locals.readings)].vals) = 100) =>
        /\ locals.factor = 100
        /\ SeriesScaledBy(100)

\* the last reading is the latest one, both its values are 1, and a series
\* holds its value as 100
C22_Witness ==
    /\ MoistureSuccess /\ SomeSeriesValue
    /\ MedianOf(locals.readings[Len(locals.readings)].vals) = 100
    /\ TwiceMedian(LatestReading(locals.readings).vals) = 200
    /\ LatestReading(locals.readings) = locals.readings[Len(locals.readings)]
    /\ \E c \in DOMAIN locals.series : \E i \in 1..Len(locals.series[c]) :
           locals.series[c][i].v = 10000

\* C23, as stated: the unit factor is computed from the values of the reading
\* with the greatest timestamp among all the readings built from the CSV,
\* whatever the order of the data rows.
C23_FactorFromLatest ==
    MoistureSuccess =>
        \E k \in 1..Len(locals.readings) :
            /\ \A j \in 1..Len(locals.readings) : locals.readings[j].ts <= locals.readings[k].ts
            /\ locals.factor = FactorOf(MedianOf(locals.readings[k].vals))

\* what holds: the factor is computed from the reading built from the last
\* yielding row, which is the latest one when the rows are in chronological
\* order
C23_FactorFromLastRow ==
    MoistureSuccess =>
        /\ locals.factor = FactorOf(MedianOf(locals.readings[Len(locals.readings)].vals))
        /\ (\A j \in 1..Len(locals.readings) :
                locals.readings[j].ts <= locals.readings[Len(locals.readings)].ts)
               => locals.factor = FactorOf(MedianOf(LatestReading(locals.readings).vals))

\* ------------------------------------------------------ the zone of the stamps

\* every reading the handler built carries the instant that the stamp of some
\* data row denotes as wall-clock time in the given zone
StampsReadIn(zone) ==
    \A k \in 1..Len(locals.readings) :
        \E r \in DataRowsOf(UpRows) :
            /\ r[1] # <<>>
            /\ parseLocalWallTime(r[1], zone, env.hour24, env.legacyOk)
                   = Instant(locals.readings[k].ts)

Answered == hpc = "done" /\ response.statusCode = 200 /\ locals.readings # <<>>

\* C25: in both handlers every naive row stamp is read as wall-clock time in
\* the zone of the request, the zone that also delimits today.
C25_StampsInRequestZone ==
    (Answered /\ RequestTz \in ZoneNames) => StampsReadIn(RequestTz)

\* what the handlers do: soil-moisture.js reads the stamps in the zone of the
\* request, soil-temp.js in America/Chicago whatever the request says
C25_StampsInHandlerZone ==
    (Answered /\ RequestTz \in ZoneNames) => StampsReadIn(StampTz)

C25_MoistureStampsInRequestZone ==
    (Answered /\ fn = "moisture" /\ RequestTz \in ZoneNames) => StampsReadIn(RequestTz)

\* ------------------------------------------------------ the moisture readings

\* the rows of the table, by index, that the claim says give a reading
YieldingRows == {i \in 2..Len(UpRows) : RowYields(UpRows[i])}

\* the reading the claim says row r gives: the instant of its stamp and the
\* numbers of the identified columns whose cell parsed
ReadingOfRow(r) ==
    [ts |-> parseLocalWallTime(r[1], RequestTz, env.hour24, env.legacyOk).t,
     vals |-> [i \in {c.colIdx : c \in {c \in ReadColumns : ~parseFloat(CellAt(r, c.colIdx)).nan}}
                  |-> parseFloat(CellAt(r, i)).v]]

\* readings holds one reading for each row of Y and none else, in row order
OnePerRow(readings, Y) ==
    \E f \in [1..Len(readings) -> 2..Len(UpRows)] :
        /\ {f[k] : k \in 1..Len(readings)} = Y
        /\ \A k \in 1..Len(readings) :
               /\ k > 1 => f[k - 1] < f[k]
               /\ readings[k] = ReadingOfRow(UpRows[f[k]])

\* the moisture handler identified columns and the zone of the request is known
MoistureRowsRead ==
    /\ fn = "moisture" /\ hpc \in {"readings", "done"}
    /\ Fetched /\ UpCols # <<>> /\ RequestTz \in ZoneNames

\* C26: the moisture handler builds exactly one reading for each data row
\* with a non-empty date cell, a stamp that resolves and a finite number in
\* at least one identified column, none for any other row, in row order and
\* with values for the parsed columns only; no row or cell that does not
\* parse, a cell missing from a short row included, ends the request with an
\* error.
C26_OneReadingPerGoodRow ==
    MoistureRowsRead =>
        /\ OnePerRow(locals.readings, YieldingRows)
        /\ hpc = "done" => response.statusCode = 200

\* a short row gives a reading without the value of its missing cell, next to
\* a row that gives none
C26_Witness ==
    /\ MoistureRowsRead /\ hpc = "done" /\ Len(UpCols) = 2
    /\ Len(locals.readings) = 1 /\ Len(UpRows) = 3
    /\ Cardinality(DOMAIN locals.readings[1].vals) = 1
    /\ \E i \in YieldingRows : Len(UpRows[i]) = 2

\* ------------------------------------------------------ the depths of the answer

RECURSIVE SumIn(_, _, _)
SumIn(readings, col, W) ==
    IF W = {} THEN 0
    ELSE LET k == CHOOSE k \in W : TRUE
         IN readings[k].vals[col] + SumIn(readings, col, W \ {k})

\* the readings, by index, that hold a value of the column and lie in the
\* lookback window; unbounded tells what a lookback that is not a number admits
SamplesInWindow(readings, col, days, unbounded) ==
    {k \in 1..Len(readings) :
        /\ col \in DOMAIN readings[k].vals
        /\ IF days.nan THEN unbounded ELSE readings[k].ts >= clock - days.v * 86400}

\* entry e answers the depth want from the readings: the nearest column, the
\* scaled value of a last sample of the window and the mean of the window
EntryAnswers(e, want, readings, unbounded) ==
    LET best == NearestColumn(UpCols, want)
        W == SamplesInWindow(readings, best.colIdx, locals.days, unbounded)
    IN /\ e.depthIn = want.v
       /\ e.mappedDepthIn = round1(best.depthInches, 25400)
       /\ IF W = {} THEN e.vwc = Null /\ e.avg30 = Null
          ELSE /\ \E k \in W :
                      /\ \A j \in W : readings[j].ts <= readings[k].ts
                      /\ e.vwc = Val(round1(readings[k].vals[best.colIdx] * locals.factor, 100))
               /\ e.avg30 = Val(round1(SumIn(readings, best.colIdx, W) * locals.factor,
                                       100 * Cardinality(W)))

DepthsAnswer(wanted, unbounded) ==
    /\ Len(response.body.depths) = Len(wanted)
    /\ \A i \in 1..Len(wanted) :
           EntryAnswers(response.body.depths[i], wanted[i], locals.readings, unbounded)

\* C27: the moisture answer holds one entry for each requested depth, in the
\* order of the request; each gives the scaled value of the chronologically
\* last sample of the nearest column at or after now minus the lookback days
\* and the mean of exactly the samples of that window, both null with the
\* mapped depth still given when the window is empty; an entry is determined
\* by its own depth alone.
C27_WindowedLatestAndMean ==
    MoistureSuccess => DepthsAnswer(DepthsRequested(event.depth), FALSE)

\* what the handler computes: a sample is dropped when its instant is below
\* the cutoff, so a cutoff that is not a number drops none
C27_NothingDroppedWithoutCutoff ==
    MoistureSuccess => DepthsAnswer(DepthsRequested(event.depth), TRUE)

\* the lookback is a number, one sample lies before the window and one in it
C27_WindowCuts ==
    /\ MoistureSuccess /\ ~locals.days.nan
    /\ \E k \in 1..Len(locals.readings) : locals.readings[k].ts < clock - locals.days.v * 86400
    /\ \E i \in 1..Len(response.body.depths) : ~response.body.depths[i].vwc.null

\* ------------------------------------------------------ the instants called now

\* the from bound, the date key of today and the instant the trend cutoffs
\* count back from all derive from the instant now
DerivedFrom(now) ==
    /\ locals.from = ymdHMS_utc(SinceOf(now, locals.days))
    /\ locals.todayKey = dateOnly_tz(now, locals.tz)
    /\ locals.nowMs = now

\* C29: within one temperature request the from bound sent upstream, the
\* date key of today and the 7-day and 30-day cutoffs derive from one and the
\* same instant now, even when the clock advances, for instance across
\* midnight, while the upstream request is pending.
C29_OneNow ==
    TempSuccess => \E now \in {ClockStart + d : d \in FetchDelays} : DerivedFrom(now)

\* what the handler does: the from bound derives from the clock read before
\* the upstream request, today's key and the cutoffs from the clock read
\* after it
C29_ClockReadBeforeAndAfter ==
    TempSuccess =>
        /\ locals.from = ymdHMS_utc(SinceOf(ClockStart, locals.days))
        /\ locals.todayKey = dateOnly_tz(clock, locals.tz)
        /\ locals.nowMs = clock
        /\ clock = ClockStart + upstream.delay

\* the upstream request was pending across midnight of the request's zone
C29_AcrossMidnight ==
    /\ TempSuccess /\ upstream.delay > 0
    /\ dateOnly_tz(ClockStart, locals.tz) # locals.todayKey

\* ------------------------------------------------- claims on identification

\* the rule that decides cell h, the first that matches in the order of the
\* handler's patterns, and the depth it gives
CmRule(h, variant) ==
    ChannelCmMatch(h, IF variant = "vwc" THEN {"V", "v"} ELSE TypeLetters(variant))
PlainRule(h, variant) ==
    IF variant = "vwc" THEN PlainChannelMatch(h, {"V", "v"}) ELSE <<>>
TextRule(h, variant) ==
    KeywordCmMatch(h, IF variant = "vwc" THEN VwcKeywords ELSE TypeKeywords(variant))

DecidingRule(h, variant) ==
    IF CmRule(h, variant) # <<>> THEN "channel(cm)"
    ELSE IF PlainRule(h, variant) # <<>> THEN "channel"
    ELSE IF TextRule(h, variant) # <<>> THEN "text"
    ELSE "none"

InWiringTable(digits) == ToNumber(digits) \in {1, 2}

\* the depth cell h is given, or "none"
DepthDecided(h, variant) ==
    LET rule == DecidingRule(h, variant)
    IN IF rule = "channel(cm)" THEN Num(FromCm(parseFloat(CmRule(h, variant)).v))
       ELSE IF rule = "channel"
            THEN IF ~InWiringTable(PlainRule(h, variant)) THEN NaN
                 ELSE Num(FromInches(IF ToNumber(PlainRule(h, variant)) = 1 THEN 600 ELSE 2200))
       ELSE IF rule = "text" THEN Num(FromCm(parseFloat(TextRule(h, variant)).v))
       ELSE NaN

DescriptorsMatch(cols, header, variant) ==
    /\ \A k \in 1..Len(cols) :
           /\ cols[k].colIdx \in 0..(Len(header) - 1)
           /\ k > 1 => cols[k - 1].colIdx < cols[k].colIdx
           /\ Num(cols[k].depthInches) = DepthDecided(header[cols[k].colIdx + 1], variant)
    /\ \A i \in 1..Len(header) :
           (\E k \in 1..Len(cols) : cols[k].colIdx = i - 1)
               <=> ~DepthDecided(header[i], variant).nan

\* C28: column identification gives at most one descriptor for a header
\* cell, decided by the first rule that matches it; a plain channel label
\* whose channel is not in the wiring table gives none, nor does a cell no
\* rule matches; the descriptors' column indices are distinct and ascend in
\* header order.
C28_OneDescriptorPerCell ==
    spc = "done" => DescriptorsMatch(selCols, selHeader, selVariant)

\* a header of the V# handler with a plain channel outside the wiring table,
\* an unmatched cell and a plain channel of the table
C28_Witness ==
    /\ spc = "done" /\ selVariant = "vwc" /\ Len(selHeader) = 3
    /\ selHeader[1] = <<"V", "3">>
    /\ selHeader[2] = <<"x">>
    /\ selHeader[3] = <<"v", "2">>
    /\ selCols = <<[colIdx |-> 2, depthInches |-> FromInches(2200)]>>

\* ------------------------------------------------------- claims on parseCSV

\* the number of double quotes in t[1..k]
RECURSIVE QuotesBefore(_, _)
QuotesBefore(t, k) ==
    IF k = 0 THEN 0 ELSE QuotesBefore(t, k - 1) + (IF t[k] = DQ THEN 1 ELSE 0)

\* the positions of the line feeds that terminate a row (those outside quotes)
RowLFs(t) == {k \in 1..Len(t) : t[k] = LF /\ QuotesBefore(t, k - 1) % 2 = 0}

LastRowLF(t) == IF RowLFs(t) = {} THEN 0 ELSE CHOOSE k \in RowLFs(t) : \A j \in RowLFs(t) : j <= k

\* C7: parseCSV emits the final row even when no newline terminates it: when
\* at least one character follows the last row-terminating newline (or the
\* text is non-empty and has none) the table has one more row than the text has
\* row-terminating newlines, and the empty text gives a table with zero rows.
C7_TrailingRowEmitted ==
    (cpc = "done" /\ origin.kind = "raw") =>
        /\ (text = <<>> => out = <<>>)
        /\ (LastRowLF(text) < Len(text) => Len(out) = Cardinality(RowLFs(text)) + 1)

\* C8: a table serialized with every cell quoted and inner quotes doubled
\* parses back to the same rows and cells.
C8_RoundTrip ==
    (cpc = "done" /\ origin.kind = "table") => out = origin.rows

\* C9: inside a quoted field a comma or newline is appended to the cell and
\* ends neither the cell nor the row, a doubled quote appends one quote and
\* stays inside, a single quote ends the quoted field; outside quotes a comma
\* ends the cell and a newline ends the row.
C9_QuoteStateMachine ==
    [][(cpc = "scan" /\ pos <= Len(text)) =>
        LET ch == text[pos]
            nx == IF pos + 1 <= Len(text) THEN text[pos + 1] ELSE ""
        IN /\ (inQ /\ ch \in {COMMA, LF}) =>
                (cur' = Append(cur, ch) /\ row' = row /\ out' = out /\ inQ' /\ pos' = pos + 1)
           /\ (inQ /\ ch = DQ /\ nx = DQ) =>
                (cur' = Append(cur, DQ) /\ row' = row /\ out' = out /\ inQ' /\ pos' = pos + 2)
           /\ (inQ /\ ch = DQ /\ nx # DQ) =>
                (cur' = cur /\ row' = row /\ out' = out /\ ~inQ' /\ pos' = pos + 1)
           /\ (~inQ /\ ch = COMMA) =>
                (row' = Append(row, cur) /\ cur' = <<>> /\ out' = out /\ ~inQ')
           /\ (~inQ /\ ch = LF) =>
                (out' = Append(out, Append(row, cur)) /\ row' = <<>> /\ cur' = <<>> /\ ~inQ')
      ]_vars

\* a table holding a quote, a newline and a comma as cells came back whole
C9_Witness ==
    /\ cpc = "done" /\ origin.kind = "table" /\ out = origin.rows
    /\ \E i \in 1..Len(out) : \E j \in 1..Len(out[i]) : out[i][j] = <<DQ>>
    /\ \E i \in 1..Len(out) : \E j \in 1..Len(out[i]) : out[i][j] = <<LF, CR>>
    /\ \E i \in 1..Len(out) : \E j \in 1..Len(out[i]) : out[i][j] = <<COMMA>>

\* ----------------------------------------------- claims on parseLocalWallTime

\* the stamp is written in the accepted shape, with no zone suffix
Naive(sh) == sh.suffix = "none"
Shaped(sh) ==
    sh.date \in {"ymd-", "ymd/"} /\ sh.sep \in {"space", "T"} /\ sh.time \in {"hm", "hms"}

\* the stamp's fields read as UTC
WallSeconds(f) == DateUTC(f.Y, f.M - 1, f.D, f.h, f.i, f.s)

\* the instants whose wall-clock reading in the zone is w
InstantsShowing(zone, w) ==
    {t \in {w - ZoneOf(zone).std, w - ZoneOf(zone).dst} : t + OffsetAt(zone, t) = w}

\* C1: a naive stamp that denotes a local time existing exactly once in the
\* zone resolves to the instant whose rendering in the zone shows the stamp's
\* fields.  Stated for a runtime with the h23 hour cycle, where the "24"
\* rendering of midnight plays no part.
C1_ExistingStampResolved ==
    (/\ wpc = "done" /\ Naive(shape) /\ Shaped(shape) /\ timeZone \in ZoneNames /\ ~hour24
     /\ Cardinality(InstantsShowing(timeZone, WallSeconds(shape.f))) = 1)
    => /\ parsed.k = "instant"
       /\ parsed.t + OffsetAt(timeZone, parsed.t) = WallSeconds(shape.f)

\* C2: in a zone with a constant offset every naive stamp resolves to its
\* fields read as UTC minus that offset.
C2_FixedOffsetConversion ==
    (/\ wpc = "done" /\ Naive(shape) /\ Shaped(shape) /\ timeZone \in ZoneNames
     /\ ZoneOf(timeZone).std = ZoneOf(timeZone).dst)
    => parsed = Instant(WallSeconds(shape.f) - ZoneOf(timeZone).std)

\* C3: a string with no UTC marker and no numeric offset that is not of the
\* shape YYYY-MM-DD[ T]HH:MM[:SS] gives the invalid Date, never a valid one.
C3_OtherShapesUnparseable ==
    (wpc = "done" /\ Naive(shape) /\ ~Shaped(shape)) => parsed.k = "NaN"

\* the wall-clock rendering of instant t in the zone, read back as UTC; a
\* runtime with the h24 hour cycle renders the hour after midnight as 24,
\* which reads back as the same time one day later
RenderedAsUTC(zone, t, h24) ==
    LET loc == t + OffsetAt(zone, t)
    IN IF h24 /\ (loc % 86400) \div 3600 = 0 THEN loc + 86400 ELSE loc

\* C24: a naive stamp resolves to guess + (want - got), guess and want being
\* the stamp's fields read as UTC and got the rendering of guess in the zone
\* read back as UTC, with no second correction; "2024-03-10 02:30:00" in
\* America/Chicago resolves to 2024-03-10T08:30:00Z on every runtime.
C24_SinglePassCorrection ==
    (wpc = "done" /\ Naive(shape) /\ Shaped(shape) /\ timeZone \in ZoneNames) =>
        /\ parsed = Instant(WallSeconds(shape.f)
                            + (WallSeconds(shape.f)
                               - RenderedAsUTC(timeZone, WallSeconds(shape.f), hour24)))
        /\ (timeZone = "America/Chicago"
            /\ shape.f = [Y |-> 2024, M |-> 3, D |-> 10, h |-> 2, i |-> 30, s |-> 0])
               => parsed = Instant(DateUTC(2024, 2, 10, 8, 30, 0))

\* the stamp of the spring-forward gap, resolved on a runtime with the h24
\* hour cycle
C24_Witness ==
    /\ wpc = "done" /\ Naive(shape) /\ Shaped(shape) /\ timeZone = "America/Chicago"
    /\ shape.f = [Y |-> 2024, M |-> 3, D |-> 10, h |-> 2, i |-> 30, s |-> 0]
    /\ hour24
    /\ parsed = Instant(DateUTC(2024, 2, 10, 8, 30, 0))
    /\ parsed.t + OffsetAt(timeZone, parsed.t) # WallSeconds(shape.f)

\* ------------------------------------------------------ claims on selection

Distance(c, want) == Abs(c.depthInches - FromInches(want.v))

\* C10: the selected descriptor is one of the list, none is nearer to the
\* requested depth, and every descriptor before it in header order is
\* strictly farther (the first of several nearest wins); descriptors at
\* 5.9 and 22.4 inches with a request of 20 select the 22.4 one.
C10_NearestFirstWins ==
    (spc = "done" /\ ~selWant.nan) =>
        \E i \in 1..Len(selCols) :
            /\ selBest = selCols[i]
            /\ \A j \in 1..Len(selCols) : Distance(selCols[i], selWant) <= Distance(selCols[j], selWant)
            /\ \A j \in 1..(i - 1) : Distance(selCols[j], selWant) > Distance(selCols[i], selWant)

\* two columns are equally near, in a header that also holds a farther one
\* before them, and the first of the two was selected
C10_Witness ==
    /\ spc = "done" /\ ~selWant.nan /\ Len(selCols) = 3
    /\ Distance(selCols[2], selWant) = Distance(selCols[3], selWant)
    /\ Distance(selCols[1], selWant) > Distance(selCols[2], selWant)
    /\ selBest = selCols[2]

\* C19, as stated: every descriptor that column identification produces has
\* a depth strictly greater than 0, whatever the header row and whatever
\* depth a header cell encodes.
C19_DepthPositive ==
    spc \in {"select", "done"} =>
        \A k \in 1..Len(selCols) : selCols[k].depthInches > 0

\* what holds: no descriptor has a negative depth, and a depth is 0 exactly
\* when the header cell encodes 0 cm
C19_DepthNotNegative ==
    spc \in {"select", "done"} =>
        \A k \in 1..Len(selCols) :
            /\ selCols[k].depthInches >= 0
            /\ (selCols[k].depthInches = 0)
                   = (parseFloat(ChannelCmMatch(selHeader[selCols[k].colIdx + 1],
                                                TypeLetters(selVariant))).v = 0)

\* the whole centimetres written between the parentheses of a header cell
\* <letter><channel>(<cm>)
CmWritten(cell) ==
    LET open == CHOOSE k \in 1..Len(cell) : cell[k] = "("
    IN ToNumber(SubSeq(cell, open + 1, Len(cell) - 1))

\* C20: in the temperature handler every header cell T<channel>(<cm>) yields
\* a descriptor for its column whose depth in inches is cm / 2.54 (depth *
\* 2.54 = cm, in units of 1/25400 inch: depth = cm * 10000), whatever the
\* channel; 25 cm is reported as 9.8 at one decimal.
C20_TempDepthIsCmOver254 ==
    (spc \in {"select", "done"} /\ selVariant = "temp") =>
        /\ Len(selCols) = Len(selHeader) - 1
        /\ \A i \in 2..Len(selHeader) :
               /\ selCols[i - 1].colIdx = i - 1
               /\ selCols[i - 1].depthInches * 254 = CmWritten(selHeader[i]) * 2540000
               /\ CmWritten(selHeader[i]) = 25
                      => round1(selCols[i - 1].depthInches, 25400) = 98

\* the header T1(25), T2(5), T3(25): channels 1 and 3 yield the same depth
C20_Witness ==
    /\ spc \in {"select", "done"} /\ selVariant = "temp"
    /\ selHeader = <<DateTimeCell, <<"T", "1", "(", "2", "5", ")">>,
                     <<"T", "2", "(", "5", ")">>, <<"T", "3", "(", "2", "5", ")">>>>
    /\ selCols[1].depthInches = selCols[3].depthInches
    /\ round1(selCols[3].depthInches, 25400) = 98
    /\ round1(selCols[2].depthInches, 25400) = 20

====
